---------------------------- MODULE Spec2Model ----------------------------
(***************************************************************************)
(* A model of term_dungeon_rpg.py: the turn engine (Game), the entity and  *)
(* combat model (Entity, Player, Summon, Monster, Item), the dungeon       *)
(* generator (GameMap) and the persistence codec (to_dict / from_dict,     *)
(* save_game_state / load_game_state).                                     *)
(*                                                                         *)
(* Coordinates are the source's 0-based (x, y); a tile grid is a sequence  *)
(* of rows, so the source's tiles[y][x] is tiles[y + 1][x + 1] here.       *)
(***************************************************************************)
EXTENDS Integers, Sequences, FiniteSets, TLC

(***************************************************************************)
(* Program constants                                                       *)
(***************************************************************************)
TILE_WALL == "#"
TILE_FLOOR == "."
TILE_PORTAL == "O"

AUTOSAVE_INTERVAL_TURNS == 20
INVENTORY_SIZE == 10
SIGHT_RANGE == 8
BUFF_DURATION == 15
BSP_MAX_DEPTH == 4
PLACE_TRIES == 100
SPAWN_TRIES == 20

(***************************************************************************)
(* Bounds of the model                                                     *)
(***************************************************************************)
MaxTurns == 3
GenWidth == 13
GenHeight == 13
MaxGenDepth == 2
NumGenSeeds == 32
NumSeeds == 7
NumSysStates == 2
MaxSeed == 255
\* Game.combat on its own: monster levels, defense potion levels, fights in a row
MaxMonsterLevel == 8
MaxPotionLevel == 3
MaxFights == 2
\* Player.update_buffs on its own: calls in a row
MaxDecays == 16
\* the inventory on its own: levels of the items added, operations in a row
MaxItemLevel == 2
MaxOps == 2
\* Game.generate_new_level as the descent: game seeds, descents in a row
NumDescentSeeds == 3
MaxDescents == 2
\* the end of a tick on its own: turns counted in a row
MaxCounts == 4
\* the arrival of the summons on its own: summons in the session
MaxSummons == 3

(***************************************************************************)
(* Small helpers                                                           *)
(***************************************************************************)
Abs(n) == IF n < 0 THEN -n ELSE n
Max(a, b) == IF a >= b THEN a ELSE b
Min(a, b) == IF a <= b THEN a ELSE b
Sign(n) == IF n > 0 THEN 1 ELSE IF n < 0 THEN -1 ELSE 0
Manhattan(x1, y1, x2, y2) == Abs(x1 - x2) + Abs(y1 - y2)
None == << >>
EmptyDict == [k \in {} |-> 0]
Some(v) == << v >>
IsSome(o) == Len(o) > 0
\* a Python list built by a comprehension, as an explicit tuple
ListOf(f) == SubSeq(f, 1, Len(f))
\* "del s[i]" / list.remove at a known index
RemoveAt(s, i) == SubSeq(s, 1, i - 1) \o SubSeq(s, i + 1, Len(s))
\* index of the first element of s satisfying P, 0 when there is none
FirstIdx(s, P(_)) ==
    IF \E i \in 1..Len(s) : P(s[i])
    THEN CHOOSE i \in 1..Len(s) : P(s[i]) /\ \A k \in 1..(i - 1) : ~P(s[k])
    ELSE 0

(***************************************************************************)
(* random.Random: a seeded generator whose whole future is a function of   *)
(* its state.  The host generator is abstracted to a 16-bit linear         *)
(* congruential generator; a draw steps the state and reads its high byte. *)
(***************************************************************************)
RngSeed(seed) == ((seed % 65536) * 20077 + 12345) % 65536
RngNext(s) == (s * 25173 + 13849) % 65536
RngBits(s) == s \div 256
\* rng.random(): value / 256 in [0, 1)
RngRandom(s) == [val |-> RngBits(RngNext(s)), rng |-> RngNext(s)]
\* rng.randint(a, b), a <= b
RngRandint(s, a, b) ==
    [val |-> a + (RngBits(RngNext(s)) * (b - a + 1)) \div 256, rng |-> RngNext(s)]
\* rng.choice(seq): index of the chosen element
RngChoice(s, n) == RngRandint(s, 1, n)

(***************************************************************************)
(* Entity                                                                  *)
(***************************************************************************)
Width(tiles) == Len(tiles[1])
Height(tiles) == Len(tiles)
InBounds(tiles, x, y) == 0 <= x /\ x < Width(tiles) /\ 0 <= y /\ y < Height(tiles)
\* GameMap.get_tile
get_tile(tiles, x, y) == IF InBounds(tiles, x, y) THEN tiles[y + 1][x + 1] ELSE TILE_WALL

is_alive(e) == e.hp > 0

\* a move that every entity of the list blocks, the dead ones too
EntityMoveBlockedByDead(self, dx, dy, tiles, all_entities) ==
    LET new_x == self.x + dx
        new_y == self.y + dy
    IN  IF /\ InBounds(tiles, new_x, new_y) /\ tiles[new_y + 1][new_x + 1] # TILE_WALL
           /\ \A i \in 1..Len(all_entities) :
                 all_entities[i].ref = self.ref \/ <<all_entities[i].x, all_entities[i].y>> # <<new_x, new_y>>
        THEN [ok |-> TRUE, x |-> new_x, y |-> new_y]
        ELSE [ok |-> FALSE, x |-> self.x, y |-> self.y]
\* Entity.move: the new position, or the old one with ok = FALSE.
\* all_entities is the list the caller passes; self is excluded by identity.
EntityMove(self, dx, dy, tiles, all_entities) ==
    LET new_x == self.x + dx
        new_y == self.y + dy
    IN  IF ~(InBounds(tiles, new_x, new_y) /\ tiles[new_y + 1][new_x + 1] # TILE_WALL)
        THEN [ok |-> FALSE, x |-> self.x, y |-> self.y]
        ELSE IF \E i \in 1..Len(all_entities) :
                    /\ all_entities[i].ref # self.ref
                    /\ is_alive(all_entities[i])
                    /\ all_entities[i].x = new_x /\ all_entities[i].y = new_y
             THEN [ok |-> FALSE, x |-> self.x, y |-> self.y]
             ELSE [ok |-> TRUE, x |-> new_x, y |-> new_y]

\* Entity.take_damage: the hp after the hit
take_damage(hp, damage) == IF hp - damage < 0 THEN 0 ELSE hp - damage


(***************************************************************************)
(* Item                                                                    *)
(***************************************************************************)
ItemIds == {"health_potion", "defense_potion", "hp_boost_potion", "summon", "sword", "shield"}
\* Item.__init__: stackable and power by item_id and level
ItemStackable(item_id) == item_id \in {"health_potion", "defense_potion", "hp_boost_potion", "summon"}
ItemPower(item_id, level) ==
    CASE item_id = "health_potion" -> 10 + (level - 1) * 5
      [] item_id = "defense_potion" -> 5 + (level - 1) * 2
      [] item_id = "hp_boost_potion" -> 15 + (level - 1) * 10
      [] item_id = "summon" -> level
      [] item_id = "sword" -> 2
      [] item_id = "shield" -> 1
      [] OTHER -> 0
NewItem(x, y, item_id, qty, level) ==
    [x |-> x, y |-> y, item_id |-> item_id, qty |-> qty, level |-> level]

(***************************************************************************)
(* Player                                                                  *)
(***************************************************************************)
PlayerRef == <<"player", 0>>
\* Player.__init__
NewPlayer(x, y) ==
    [ref |-> PlayerRef, x |-> x, y |-> y, hp |-> 30, max_hp |-> 30, atk |-> 4, def_val |-> 1,
     inventory |-> << >>, depth_reached |-> 1, monsters_killed |-> 0, items_collected |-> 0,
     equipped_weapon |-> None, equipped_armor |-> None, temp_buffs |-> EmptyDict]

\* temp_buffs is a dict buff_type -> (amount, steps): here a function on its keys
HasBuff(p, kind) == kind \in DOMAIN p.temp_buffs
BuffAmount(p, kind) == IF HasBuff(p, kind) THEN p.temp_buffs[kind].amount ELSE 0
EquipPower(slot) == IF IsSome(slot) THEN ItemPower(slot[1].item_id, slot[1].level) ELSE 0

PlayerGetAttack(p) == p.atk + EquipPower(p.equipped_weapon) + BuffAmount(p, "attack")
PlayerGetDefense(p) == p.def_val + EquipPower(p.equipped_armor) + BuffAmount(p, "defense")
get_max_hp(p) == p.max_hp + BuffAmount(p, "hp")

\* Entity.get_attack / get_defense, overridden by Player
get_attack(e) == IF e.ref = PlayerRef THEN PlayerGetAttack(e) ELSE e.atk
get_defense(e) == IF e.ref = PlayerRef THEN PlayerGetDefense(e) ELSE e.def_val

\* the buffs already at 0 steps before the call
OverdueBuffs(p) == {k \in DOMAIN p.temp_buffs : p.temp_buffs[k].steps <= 0}
\* Player.update_buffs: every buff loses one step, a buff at 0 steps is deleted
ExpiredBuffs(p) == {k \in DOMAIN p.temp_buffs : p.temp_buffs[k].steps - 1 <= 0}
update_buffs(p) ==
    [p EXCEPT !.temp_buffs =
        [k \in (DOMAIN p.temp_buffs) \ ExpiredBuffs(p) |->
            [amount |-> p.temp_buffs[k].amount, steps |-> p.temp_buffs[k].steps - 1, py |-> "tuple"]]]
\* the value update_buffs returns
BuffsExpired(p) == ExpiredBuffs(p) # {}

(***************************************************************************)
(* Summon and Monster                                                      *)
(***************************************************************************)
\* Summon.__init__: stats scale with the summon's level
NewSummon(id, x, y, level, player_level) ==
    [ref |-> <<"summon", id>>, x |-> x, y |-> y, hp |-> 15 + level * 8, max_hp |-> 15 + level * 8,
     atk |-> 3 + level * 2, def_val |-> 1 + level, level |-> level, player_level |-> player_level]

MonsterIds == {"goblin", "orc", "skeleton", "spider"}
\* Monster.__init__ base_templates: hp, atk, def_val
MonsterTemplate(monster_id) ==
    CASE monster_id = "orc" -> [hp |-> 10, atk |-> 4, def_val |-> 1]
      [] monster_id = "skeleton" -> [hp |-> 8, atk |-> 3, def_val |-> 1]
      [] monster_id = "spider" -> [hp |-> 4, atk |-> 3, def_val |-> 0]
      [] OTHER -> [hp |-> 5, atk |-> 2, def_val |-> 0]
\* Monster.__init__ with the level already drawn: max(1, depth + random.randint(-1, 2))
MonsterOfLevel(id, x, y, monster_id, level) ==
    LET t == MonsterTemplate(monster_id)
        level_bonus == level - 1
    IN  [ref |-> <<"monster", id>>, x |-> x, y |-> y,
         hp |-> t.hp + level_bonus * 2, max_hp |-> t.hp + level_bonus * 2,
         atk |-> t.atk + level_bonus, def_val |-> t.def_val + level_bonus \div 2,
         level |-> level, monster_id |-> monster_id]
\* the module-level random.randint(-1, 2) of Monster.__init__: not the map's rng
MonsterLevelDraw(sys, depth) == Max(1, depth + RngRandint(sys, -1, 2).val)
NewMonster(id, x, y, monster_id, depth, sys) ==
    MonsterOfLevel(id, x, y, monster_id, MonsterLevelDraw(sys, depth))

(***************************************************************************)
(* A session g is the record of the Game object's fields: player,          *)
(* monsters, items, tiles, portals, stairs_down_pos, player_start_pos,     *)
(* map_seed (current_map), summons, global_rng, sysrng (the random         *)
(* module's own generator), dungeon_depth, turn_count, game_over, next_id  *)
(* (object identities handed out so far), tick_log (what the last handler  *)
(* call did, in order), map_calls (the methods the last generate_map ran), *)
(* no_save and checkpoint (Persistence and its checkpoint file), disk (what *)
(* a write to the save directory does) and crashed (an exception no        *)
(* handler caught).                                                        *)
(***************************************************************************)
IdxOfRef(list, ref) == FirstIdx(list, LAMBDA e : e.ref = ref)
\* the entity a reference denotes; a dead monster is no longer in the list
Deref(g, ref) ==
    IF ref = PlayerRef THEN g.player
    ELSE IF ref[1] = "monster" THEN g.monsters[IdxOfRef(g.monsters, ref)]
    ELSE g.summons[IdxOfRef(g.summons, ref)]
Event(actor, act, target, damage) == [actor |-> actor, act |-> act, target |-> target, damage |-> damage]
Logged(g, actor, act, target) == [g EXCEPT !.tick_log = Append(@, Event(actor, act, target, 0))]

\* the defense a Monster of this level leaves the Player: int(defense * max(0.3, 1.0 - (level - 1) * 0.1)),
\* evaluated as the host's doubles evaluate it (1.0 - 6 * 0.1 is 0.3999999999999999), for defense < 90
EffectiveDefense(defense, level) ==
    IF level = 7 /\ defense > 0 /\ defense % 5 = 0
    THEN (defense * 4) \div 10 - 1
    ELSE (defense * Max(3, 11 - level)) \div 10
\* the damage without its floor of 1
CombatDamageUnfloored(attacker, defender) == get_attack(attacker) - get_defense(defender)
\* Game.combat, the damage dealt
CombatDamage(attacker, defender) ==
    IF attacker.ref[1] = "monster" /\ defender.ref = PlayerRef
    THEN Max(1, get_attack(attacker) - EffectiveDefense(get_defense(defender), attacker.level))
    ELSE Max(1, get_attack(attacker) - get_defense(defender))
\* a combat that counts every Monster that falls, whoever struck it
combat_counts_all(g, aref, dref) ==
    LET hp2 == take_damage(Deref(g, dref).hp, CombatDamage(Deref(g, aref), Deref(g, dref)))
        g1 == [g EXCEPT !.tick_log = Append(@, Event(aref, "attack", dref,
                                                     CombatDamage(Deref(g, aref), Deref(g, dref))))]
    IN  IF dref = PlayerRef
        THEN [g1 EXCEPT !.player.hp = hp2, !.game_over = IF hp2 = 0 THEN TRUE ELSE @]
        ELSE IF dref[1] = "monster"
        THEN IF hp2 = 0
             THEN [g1 EXCEPT !.monsters = RemoveAt(@, IdxOfRef(g.monsters, dref)),
                             !.player.monsters_killed = @ + 1]
             ELSE [g1 EXCEPT !.monsters[IdxOfRef(g.monsters, dref)].hp = hp2]
        ELSE [g1 EXCEPT !.summons[IdxOfRef(g.summons, dref)].hp = hp2]
\* Game.combat: the hit, and on death game over, or the monster's removal and the kill counter
combat(g, aref, dref) ==
    LET attacker == Deref(g, aref)
        defender == Deref(g, dref)
        damage == CombatDamage(attacker, defender)
        hp2 == take_damage(defender.hp, damage)
        g1 == [g EXCEPT !.tick_log = Append(@, Event(aref, "attack", dref, damage))]
    IN  IF dref = PlayerRef
        THEN [g1 EXCEPT !.player.hp = hp2, !.game_over = IF hp2 = 0 THEN TRUE ELSE @]
        ELSE IF dref[1] = "monster"
        THEN LET i == IdxOfRef(g.monsters, dref)
             IN  IF hp2 = 0
                 THEN [g1 EXCEPT !.monsters = RemoveAt(@, i),
                                 !.player.monsters_killed = IF aref = PlayerRef THEN @ + 1 ELSE @]
                 ELSE [g1 EXCEPT !.monsters[i].hp = hp2]
        ELSE [g1 EXCEPT !.summons[IdxOfRef(g.summons, dref)].hp = hp2]

(***************************************************************************)
(* AI: Summon.take_turn, Monster.take_turn                                 *)
(***************************************************************************)
\* the first move of the list that Entity.move accepts
TryMoves(self, moves, tiles, all_entities) ==
    LET i == FirstIdx(moves, LAMBDA m : EntityMove(self, m[1], m[2], tiles, all_entities).ok)
    IN  IF i = 0 THEN [ok |-> FALSE, x |-> self.x, y |-> self.y]
        ELSE EntityMove(self, moves[i][1], moves[i][2], tiles, all_entities)

\* Summon._smart_move_toward: the direct step, then the alternatives in order
SummonMoveList(dx, dy) ==
    << <<dx, dy>> >> \o
    (IF dx # 0 /\ dy # 0
     THEN << <<dx, 0>>, <<0, dy>>, <<-dx, dy>>, <<dx, -dy>>, <<-dx, 0>>, <<0, -dy>>, <<-dx, -dy>> >>
     ELSE IF dx # 0
     THEN << <<0, 1>>, <<0, -1>>, <<dx, 1>>, <<dx, -1>>, <<-dx, 0>>, <<-dx, 1>>, <<-dx, -1>> >>
     ELSE IF dy # 0
     THEN << <<1, 0>>, <<-1, 0>>, <<1, dy>>, <<-1, dy>>, <<0, -dy>>, <<1, -dy>>, <<-1, -dy>> >>
     ELSE << <<1, 0>>, <<0, 1>>, <<-1, 0>>, <<0, -1>>, <<1, 1>>, <<-1, -1>>, <<1, -1>>, <<-1, 1>> >>)
SummonSmartMoveToward(self, tx, ty, tiles, all_entities) ==
    TryMoves(self, SummonMoveList(Sign(tx - self.x), Sign(ty - self.y)), tiles, all_entities)

\* the closest living monster within sight of the summon (the first of the closest), 0 if none
ClosestEnemyIdx(self, monsters) ==
    LET dist(m) == Manhattan(self.x, self.y, m.x, m.y)
        seen(i) == is_alive(monsters[i]) /\ dist(monsters[i]) <= SIGHT_RANGE
    IN  IF \E i \in 1..Len(monsters) : seen(i)
        THEN CHOOSE i \in 1..Len(monsters) :
                /\ seen(i)
                /\ \A k \in 1..Len(monsters) :
                      seen(k) => \/ dist(monsters[i]) < dist(monsters[k])
                                 \/ (dist(monsters[i]) = dist(monsters[k]) /\ i <= k)
        ELSE 0

\* Summon.take_turn: [g, target]; target is the monster to fight, or None after a move
SummonTakeTurn(g, sref) ==
    LET si == IdxOfRef(g.summons, sref)
        self == g.summons[si]
        player_dist == Manhattan(self.x, self.y, g.player.x, g.player.y)
        ci == ClosestEnemyIdx(self, g.monsters)
        adx == Abs(self.x - g.monsters[ci].x)
        ady == Abs(self.y - g.monsters[ci].y)
        all_entities == <<g.player>> \o g.monsters \o SelectSeq(g.summons, LAMBDA s : s.ref # sref)
        toward(tx, ty) ==
            LET r == SummonSmartMoveToward(self, tx, ty, g.tiles, all_entities)
                g1 == [g EXCEPT !.summons[si].x = r.x, !.summons[si].y = r.y]
            IN  [g |-> IF r.ok THEN Logged(g1, sref, "move", None) ELSE g1, target |-> None]
    IN  IF ci # 0 /\ adx <= 1 /\ ady <= 1 /\ adx + ady > 0
        THEN [g |-> g, target |-> Some(g.monsters[ci].ref)]
        ELSE IF player_dist > 6 THEN toward(g.player.x, g.player.y)
        ELSE IF ci # 0 THEN toward(g.monsters[ci].x, g.monsters[ci].y)
        ELSE IF player_dist > 3 THEN toward(g.player.x, g.player.y)
        ELSE [g |-> g, target |-> None]

\* Monster._select_target: a target's score as a numerator over 640 * target.max_hp;
\* jit is the byte drawn for rng.uniform(-2, 2), worth (jit - 128) / 64
TargetScore(self, target, jit) ==
    LET distance == Manhattan(self.x, self.y, target.x, target.y)
        m == target.max_hp
        proximity_score == Max(0, 10 - distance)
        health == m - target.hp     \* health_score = 10 * health / m
        base ==
            CASE self.monster_id = "spider" ->
                    640 * m * (proximity_score + (IF distance <= 3 THEN 5 ELSE 0)) + 9600 * health
              [] self.monster_id = "orc" ->
                    640 * m * proximity_score + 192 * get_attack(target) * m
              [] self.monster_id = "skeleton" ->
                    640 * m * (proximity_score + (IF target.ref = PlayerRef THEN 8 ELSE 0)) + 6400 * health
              [] OTHER ->
                    640 * m * proximity_score + 7680 * health
    IN  base + 10 * (jit - 128) * m
\* a / (640 * ma) < b / (640 * mb)
ScoreLess(a, ma, b, mb) == a * mb < b * ma
RECURSIVE RngAdvance(_, _)
RngAdvance(s, n) == IF n = 0 THEN s ELSE RngAdvance(RngNext(s), n - 1)

\* a target selection that keeps the candidates beyond the sight radius
SelectTargetAnyRange(self, potential_targets, rng) ==
    LET n == Len(potential_targets)
        score(i) == TargetScore(self, potential_targets[i], RngBits(RngAdvance(rng, i)))
        less(i, k) == ScoreLess(score(i), potential_targets[i].max_hp,
                                score(k), potential_targets[k].max_hp)
        best == CHOOSE i \in 1..n :
                    /\ \A k \in 1..n : ~less(i, k)
                    /\ \A k \in 1..n : k < i => less(k, i)
    IN  [target |-> Some(potential_targets[best].ref), rng |-> RngAdvance(rng, n)]
\* Monster._select_target: [target, rng]; one jitter draw per candidate, then the best in sight
SelectTarget(self, potential_targets, rng) ==
    LET n == Len(potential_targets)
        jit(i) == RngBits(RngAdvance(rng, i))
        score(i) == TargetScore(self, potential_targets[i], jit(i))
        dist(i) == Manhattan(self.x, self.y, potential_targets[i].x, potential_targets[i].y)
        valid == {i \in 1..n : dist(i) <= SIGHT_RANGE}
        less(i, k) == ScoreLess(score(i), potential_targets[i].max_hp,
                                score(k), potential_targets[k].max_hp)
        best == CHOOSE i \in valid :
                    /\ \A k \in valid : ~less(i, k)
                    /\ \A k \in valid : k < i => less(k, i)
    IN  [target |-> IF valid = {} THEN None ELSE Some(potential_targets[best].ref),
         rng |-> RngAdvance(rng, n)]

\* Monster._smart_move_toward_target: the direct step, then the alternatives of the monster's kind
MonsterMoveList(monster_id, dx, dy) ==
    << <<dx, dy>> >> \o
    (IF monster_id = "spider"
     THEN << <<dy, dx>>, <<-dy, -dx>>, <<dx, 0>>, <<0, dy>>, <<-dx, 0>>, <<0, -dy>> >>
     ELSE IF monster_id = "orc"
     THEN << <<dx, 0>>, <<0, dy>>, <<dx, dy>>, <<-dx, dy>>, <<dx, -dy>> >>
     ELSE << <<dx, 0>>, <<0, dy>>, <<-dx, dy>>, <<dx, -dy>>, <<-dx, 0>>, <<0, -dy>> >>)
SmartMoveTowardTarget(self, target, tiles, all_entities) ==
    TryMoves(self, MonsterMoveList(self.monster_id, Sign(target.x - self.x), Sign(target.y - self.y)),
             tiles, all_entities)

WanderDirs == << <<0, 1>>, <<0, -1>>, <<1, 0>>, <<-1, 0>>, <<1, 1>>, <<-1, -1>>, <<1, -1>>, <<-1, 1>> >>
\* Monster._wander_intelligently: [ok, x, y, rng]
WanderIntelligently(self, tiles, all_entities, rng) ==
    LET r1 == RngRandom(rng)
        center == r1.val < 77      \* rng.random() < 0.3
        r2 == RngChoice(r1.rng, 8)
        d == IF center
             THEN <<Sign(Width(tiles) \div 2 - self.x), Sign(Height(tiles) \div 2 - self.y)>>
             ELSE WanderDirs[r2.val]
        m == TryMoves(self, <<d, <<0, 1>>, <<0, -1>>, <<1, 0>>, <<-1, 0>> >>, tiles, all_entities)
    IN  [ok |-> m.ok, x |-> m.x, y |-> m.y, rng |-> IF center THEN r1.rng ELSE r2.rng]

\* Monster.take_turn: [g, target]; target is whom to fight, or None after moving or holding
MonsterTakeTurn(g, mref) ==
    LET mi == IdxOfRef(g.monsters, mref)
        self == g.monsters[mi]
        potential_targets == <<g.player>> \o SelectSeq(g.summons, is_alive)
        sel == SelectTarget(self, potential_targets, g.global_rng)
        target == Deref(g, sel.target[1])
        all_entities == <<g.player>> \o SelectSeq(g.monsters, LAMBDA m : m.ref # mref) \o g.summons
        moved(r, rng) ==
            LET g1 == [g EXCEPT !.monsters[mi].x = r.x, !.monsters[mi].y = r.y, !.global_rng = rng]
            IN  [g |-> IF r.ok THEN Logged(g1, mref, "move", None) ELSE g1, target |-> None]
    IN  IF IsSome(sel.target)
        THEN IF Manhattan(self.x, self.y, target.x, target.y) = 1
             THEN [g |-> [g EXCEPT !.global_rng = sel.rng], target |-> sel.target]
             ELSE moved(SmartMoveTowardTarget(self, target, g.tiles, all_entities), sel.rng)
        ELSE LET w == WanderIntelligently(self, g.tiles, all_entities, sel.rng)
             IN  moved(w, w.rng)

(***************************************************************************)
(* Game.end_player_turn                                                    *)
(***************************************************************************)
Refs(list) == ListOf([i \in 1..Len(list) |-> list[i].ref])
Adjacent4(a, b) ==
    LET dx == Abs(a.x - b.x)
        dy == Abs(a.y - b.y)
    IN  (dx = 1 /\ dy = 0) \/ (dx = 0 /\ dy = 1)

\* the fight with the target take_turn returned, t = [g, target]
FightTarget(t, aref) ==
    IF IsSome(t.target) /\ is_alive(Deref(t.g, t.target[1])) THEN combat(t.g, aref, t.target[1])
    ELSE t.g
\* one iteration of "for summon in list(self.summons)"
SummonStep(g, sref) ==
    LET si == IdxOfRef(g.summons, sref)
    IN  IF ~is_alive(g.summons[si]) THEN [g EXCEPT !.summons = RemoveAt(@, si)]
        ELSE FightTarget(SummonTakeTurn(g, sref), sref)
RECURSIVE SummonPhase(_, _, _)
SummonPhase(g, snapshot, i) ==
    IF i > Len(snapshot) THEN g ELSE SummonPhase(SummonStep(g, snapshot[i]), snapshot, i + 1)

\* a monster loop that leaves a fallen summon on the list
KeepIfDead(g, sref) == g
\* a summon killed by a monster is taken off the list at once
DropIfDead(g, sref) ==
    LET si == IdxOfRef(g.summons, sref)
    IN  IF si # 0 /\ ~is_alive(g.summons[si]) THEN [g EXCEPT !.summons = RemoveAt(@, si)] ELSE g

\* the fallback of the monster loop: the monster that got no fight from take_turn hits the
\* Player if orthogonally adjacent, and then the first living summon orthogonally adjacent
FallbackOnSummon(g, mref) ==
    LET self == Deref(g, mref)
        si == FirstIdx(g.summons, LAMBDA s : is_alive(s) /\ Adjacent4(self, s))
    IN  IF g.game_over \/ si = 0 THEN g
        ELSE DropIfDead(combat(g, mref, g.summons[si].ref), g.summons[si].ref)
\* a fallback in which the Monster hits the Player from two tiles away
MonsterFallbackReach2(g, mref) ==
    LET self == Deref(g, mref)
    IN  FallbackOnSummon(IF Manhattan(self.x, self.y, g.player.x, g.player.y) <= 2
                         THEN combat(g, mref, PlayerRef) ELSE g, mref)
MonsterFallback(g, mref) ==
    FallbackOnSummon(IF Adjacent4(Deref(g, mref), g.player) THEN combat(g, mref, PlayerRef) ELSE g, mref)

\* what the loop does with the target take_turn returned, t = [g, target]
MonsterAct(t, mref) ==
    IF IsSome(t.target) /\ is_alive(Deref(t.g, t.target[1]))
    THEN DropIfDead(combat(t.g, mref, t.target[1]), t.target[1])
    ELSE MonsterFallback(t.g, mref)
\* one iteration of "for monster in list(self.current_map.monsters)"
MonsterStep(g, mref) ==
    IF ~is_alive(Deref(g, mref)) THEN g ELSE MonsterAct(MonsterTakeTurn(g, mref), mref)
\* a monster loop that goes on after the Player has died
RECURSIVE MonsterPhaseNoBreak(_, _, _)
MonsterPhaseNoBreak(g, snapshot, i) ==
    IF i > Len(snapshot) THEN g
    ELSE MonsterPhaseNoBreak(MonsterStep(g, snapshot[i]), snapshot, i + 1)
\* the loop ends early ("break") once the Player is dead
RECURSIVE MonsterPhase(_, _, _)
MonsterPhase(g, snapshot, i) ==
    IF i > Len(snapshot) \/ g.game_over THEN g
    ELSE MonsterPhase(MonsterStep(g, snapshot[i]), snapshot, i + 1)

(***************************************************************************)
(* Persistence codec: to_dict, json.dump / json.load, from_dict            *)
(***************************************************************************)
\* Item.to_dict / Item.from_dict
ItemToDict(i) == [x |-> i.x, y |-> i.y, item_id |-> i.item_id, qty |-> i.qty, level |-> i.level]
ItemFromDict(d) == NewItem(d.x, d.y, d.item_id, d.qty, d.level)
OptItemToDict(slot) == IF IsSome(slot) THEN Some(ItemToDict(slot[1])) ELSE None
OptItemFromDict(d) == IF IsSome(d) THEN Some(ItemFromDict(d[1])) ELSE None
\* json.dump writes a tuple as an array, and json.load reads an array as a list
JsonBuffs(b) == [k \in DOMAIN b |-> [amount |-> b[k].amount, steps |-> b[k].steps, py |-> "list"]]

\* Player.to_dict (cosmetic fields left out: char, color_pair, name)
PlayerToDict(p) ==
    [x |-> p.x, y |-> p.y, hp |-> p.hp, max_hp |-> p.max_hp, atk |-> p.atk, def_val |-> p.def_val,
     inventory |-> ListOf([i \in 1..Len(p.inventory) |-> ItemToDict(p.inventory[i])]),
     depth_reached |-> p.depth_reached, monsters_killed |-> p.monsters_killed,
     items_collected |-> p.items_collected,
     equipped_weapon |-> OptItemToDict(p.equipped_weapon),
     equipped_armor |-> OptItemToDict(p.equipped_armor),
     temp_buffs |-> p.temp_buffs]
\* Player.from_dict without "player.__dict__.update(data)" and what follows it
PlayerFromDictFresh(d) == NewPlayer(d.x, d.y)
\* Player.from_dict: a new Player, its __dict__ updated from the data, the items rebuilt
PlayerFromDict(d) ==
    [NewPlayer(d.x, d.y) EXCEPT
        !.hp = d.hp, !.max_hp = d.max_hp, !.atk = d.atk, !.def_val = d.def_val,
        !.depth_reached = d.depth_reached, !.monsters_killed = d.monsters_killed,
        !.items_collected = d.items_collected,
        !.inventory = ListOf([i \in 1..Len(d.inventory) |-> ItemFromDict(d.inventory[i])]),
        !.equipped_weapon = OptItemFromDict(d.equipped_weapon),
        !.equipped_armor = OptItemFromDict(d.equipped_armor),
        !.temp_buffs = d.temp_buffs]

\* Summon.to_dict / Summon.from_dict (the constructor draws a name from the random module)
SummonToDict(s) ==
    [x |-> s.x, y |-> s.y, hp |-> s.hp, max_hp |-> s.max_hp, atk |-> s.atk, def_val |-> s.def_val,
     level |-> s.level, player_level |-> s.player_level]
SummonFromDict(id, d) ==
    [NewSummon(id, d.x, d.y, d.level, d.player_level) EXCEPT
        !.hp = d.hp, !.max_hp = d.max_hp, !.atk = d.atk, !.def_val = d.def_val]

\* Monster.to_dict / Monster.from_dict (the constructor is run for depth 1, then overwritten)
MonsterToDict(m) ==
    [x |-> m.x, y |-> m.y, hp |-> m.hp, max_hp |-> m.max_hp, atk |-> m.atk, def_val |-> m.def_val,
     monster_id |-> m.monster_id, level |-> m.level]
MonsterFromDict(id, d, sys) ==
    [NewMonster(id, d.x, d.y, d.monster_id, 1, sys) EXCEPT
        !.hp = d.hp, !.max_hp = d.max_hp, !.atk = d.atk, !.def_val = d.def_val, !.level = d.level]

\* random.Random.getstate(): (version, internal state, gauss_next), and what JSON makes of it
RngGetState(s) == [py |-> "tuple", version |-> 3, internal |-> [py |-> "tuple", state |-> s]]
JsonRngState(st) == [py |-> "list", version |-> st.version,
                     internal |-> [py |-> "list", state |-> st.internal.state]]
\* Game.load_game_state: the list read from JSON is made a tuple of tuples again
RngStateFromJson(st) ==
    IF st.py = "list"
    THEN [py |-> "tuple", version |-> st.version,
          internal |-> IF st.internal.py = "list" THEN [st.internal EXCEPT !.py = "tuple"]
                       ELSE st.internal]
    ELSE st
\* random.Random.setstate accepts a version 3 tuple holding a tuple
RngSetStateOk(st) == st.py = "tuple" /\ st.version = 3 /\ st.internal.py = "tuple"

\* GameMap.to_dict
MapToDict(g) ==
    [seed |-> g.map_seed,
     monsters |-> ListOf([i \in 1..Len(g.monsters) |-> MonsterToDict(g.monsters[i])]),
     items |-> ListOf([i \in 1..Len(g.items) |-> ItemToDict(g.items[i])]),
     portals |-> g.portals]
\* Game.save_game_state: the state dict as json.dump writes it
SaveState(g) ==
    [player |-> [PlayerToDict(g.player) EXCEPT !.temp_buffs = JsonBuffs(@)],
     dungeon_depth |-> g.dungeon_depth, turn_count |-> g.turn_count,
     global_seed |-> JsonRngState(RngGetState(g.global_rng)),
     map |-> MapToDict(g),
     summons |-> ListOf([i \in 1..Len(g.summons) |-> SummonToDict(g.summons[i])])]
\* a checkpoint file whose bytes gzip or json.load cannot read
Unreadable == [bytes |-> "not gzip"]
\* what a write to the save directory does: it succeeds, gzip.open raises (the file is left
\* as it was), or json.dump raises after gzip.open has truncated the file
Disks == {"ok", "readonly", "full"}
\* Persistence.save_game: an exception of the write is logged, nothing is raised
save_game(g, state) ==
    IF g.no_save \/ g.disk = "readonly" THEN g
    ELSE [g EXCEPT !.checkpoint = Some(IF g.disk = "ok" THEN state ELSE Unreadable)]
\* Game.save_game_state: the state dict goes to Persistence.save_game
save_game_state(g) == save_game(g, SaveState(g))

(***************************************************************************)
(* Game.end_player_turn, Player inventory, Item effects                    *)
(***************************************************************************)
\* Game.end_player_turn: buffs decay, summons act, monsters act, the turn is counted, autosave
DecayBuffs(g) == Logged([g EXCEPT !.player = update_buffs(g.player)], PlayerRef, "decay", None)
SummonTurns(g) == SummonPhase(g, Refs(g.summons), 1)
MonsterTurns(g) == MonsterPhase(g, Refs(g.monsters), 1)
\* every 20th turn: save_game_state, then add_message("Game autosaved.")
Autosave(g) ==
    IF g.turn_count % AUTOSAVE_INTERVAL_TURNS = 0
    THEN Logged(save_game_state(g), <<"game", 0>>, "autosaved", None)
    ELSE g
CountTurn(g) == Autosave([g EXCEPT !.turn_count = @ + 1])
\* end_player_turn with the monster loop run before the summon loop
end_player_turn_monsters_first(g) == CountTurn(SummonTurns(MonsterTurns(DecayBuffs(g))))
end_player_turn(g) == CountTurn(MonsterTurns(SummonTurns(DecayBuffs(g))))

\* an add_item that never looks at the number of slots
add_item_unbounded(p, item) ==
    [ok |-> TRUE, player |-> [p EXCEPT !.inventory = Append(@, item), !.items_collected = @ + item.qty]]
\* a remove_item that keeps the slot of a stack whatever is left of it
remove_item_keep_slot(p, i) ==
    IF ItemStackable(p.inventory[i].item_id) THEN [p EXCEPT !.inventory[i].qty = @ - 1]
    ELSE [p EXCEPT !.inventory = RemoveAt(@, i)]
\* Player.add_item: [ok, player]
add_item(p, item) ==
    LET si == FirstIdx(p.inventory, LAMBDA inv : inv.item_id = item.item_id /\ ItemStackable(inv.item_id))
    IN  IF Len(p.inventory) >= INVENTORY_SIZE THEN [ok |-> FALSE, player |-> p]
        ELSE IF si # 0
        THEN [ok |-> TRUE, player |-> [p EXCEPT !.inventory[si].qty = @ + item.qty,
                                                !.items_collected = @ + item.qty]]
        ELSE [ok |-> TRUE, player |-> [p EXCEPT !.inventory = Append(@, item),
                                                !.items_collected = @ + item.qty]]
\* a remove_item that leaves weapons and armor in the inventory
remove_item_stacks_only(p, i) ==
    IF ~ItemStackable(p.inventory[i].item_id) THEN p
    ELSE IF p.inventory[i].qty - 1 > 0 THEN [p EXCEPT !.inventory[i].qty = @ - 1]
    ELSE [p EXCEPT !.inventory = RemoveAt(@, i)]
\* Player.remove_item(item) for the item in slot i, qty 1
remove_item(p, i) ==
    IF ItemStackable(p.inventory[i].item_id) /\ p.inventory[i].qty - 1 > 0
    THEN [p EXCEPT !.inventory[i].qty = @ - 1]
    ELSE [p EXCEPT !.inventory = RemoveAt(@, i)]

\* a potion whose buff adds to the running buff of its kind, magnitude and duration
GrantBuffAdding(p, kind, power) ==
    [p EXCEPT !.temp_buffs =
        [k \in DOMAIN p.temp_buffs \cup {kind} |->
            IF k # kind THEN p.temp_buffs[k]
            ELSE [amount |-> BuffAmount(p, kind) + power,
                  steps |-> BUFF_DURATION + (IF HasBuff(p, kind) THEN p.temp_buffs[kind].steps ELSE 0),
                  py |-> "tuple"]]]
\* player.temp_buffs[kind] = (self.power, duration): the entry of the kind is overwritten
GrantBuff(p, kind, power) ==
    [p EXCEPT !.temp_buffs =
        [k \in DOMAIN p.temp_buffs \cup {kind} |->
            IF k = kind THEN [amount |-> power, steps |-> BUFF_DURATION, py |-> "tuple"]
            ELSE p.temp_buffs[k]]]

\* the first free floor tile around the Player, in the order Item._use_summon tries them
SummonSpots == << <<0, 1>>, <<1, 0>>, <<0, -1>>, <<-1, 0>>, <<1, 1>>, <<-1, -1>>, <<1, -1>>, <<-1, 1>> >>
OccupiedBy(list, x, y) == \E k \in 1..Len(list) : list[k].x = x /\ list[k].y = y
\* Item.use for the item in slot i: [ok, g]
ItemUse(g, i) ==
    LET p == g.player
        item == p.inventory[i]
        power == ItemPower(item.item_id, item.level)
        free(d) == /\ get_tile(g.tiles, p.x + d[1], p.y + d[2]) = TILE_FLOOR
                   /\ ~OccupiedBy(g.monsters, p.x + d[1], p.y + d[2])
                   /\ ~OccupiedBy(g.summons, p.x + d[1], p.y + d[2])
        spot == FirstIdx(SummonSpots, free)
        buffed(kind) == GrantBuff(p, kind, power)
    IN  CASE item.item_id = "health_potion" ->
                IF p.hp >= p.max_hp THEN [ok |-> FALSE, g |-> g]
                ELSE [ok |-> TRUE,
                      g |-> [g EXCEPT !.player = remove_item([p EXCEPT !.hp = Min(p.max_hp, p.hp + power)], i)]]
          [] item.item_id = "defense_potion" ->
                [ok |-> TRUE, g |-> [g EXCEPT !.player = remove_item(buffed("defense"), i)]]
          [] item.item_id = "hp_boost_potion" ->
                [ok |-> TRUE,
                 g |-> [g EXCEPT !.player =
                           remove_item([buffed("hp") EXCEPT !.hp = Min(get_max_hp(buffed("hp")), p.hp + power)], i)]]
          [] item.item_id = "summon" ->
                IF spot = 0 THEN [ok |-> FALSE, g |-> g]
                ELSE [ok |-> TRUE,
                      g |-> [g EXCEPT !.summons = Append(@, NewSummon(g.next_id, p.x + SummonSpots[spot][1],
                                                                     p.y + SummonSpots[spot][2],
                                                                     item.level, g.dungeon_depth)),
                                      !.next_id = @ + 1,
                                      !.sysrng = RngNext(@),
                                      !.player = remove_item(p, i)]]
          [] item.item_id = "sword" ->
                [ok |-> TRUE,
                 g |-> [g EXCEPT !.player =
                           remove_item([p EXCEPT !.inventory = @ \o p.equipped_weapon,
                                                 !.equipped_weapon = Some(item)], i)]]
          [] OTHER ->
                [ok |-> TRUE,
                 g |-> [g EXCEPT !.player =
                           remove_item([p EXCEPT !.inventory = @ \o p.equipped_armor,
                                                 !.equipped_armor = Some(item)], i)]]

\* a handler that ends the turn whether or not the item could be used
AfterUseEndsTurn(u, i) ==
    end_player_turn(Logged(u.g, PlayerRef, IF u.ok THEN "use" ELSE "refused", <<"slot", i>>))
\* Game.handle_inventory_input for the key of slot i (1-based): a used item ends the turn
AfterUse(u, i) ==
    IF u.ok THEN end_player_turn(Logged(u.g, PlayerRef, "use", <<"slot", i>>))
    ELSE Logged(u.g, PlayerRef, "refused", <<"slot", i>>)
handle_inventory_input(g, i) ==
    IF i > Len(g.player.inventory) THEN g ELSE AfterUse(ItemUse([g EXCEPT !.tick_log = << >>], i), i)

(***************************************************************************)
(* GameMap.generate_map: binary space partitioning                         *)
(* A generation state st holds the GameMap under construction: tiles, rng  *)
(* (self.rng), rooms, and raised, set when a draw from an empty range      *)
(* makes random.randint raise ValueError.                                  *)
(***************************************************************************)
\* GameMap.__init__ / the reset of generate_map: all walls
AllWalls(width, height) == [y \in 1..height |-> [x \in 1..width |-> TILE_WALL]]
\* tiles[y][x] = tile for x1 <= x < x2, y1 <= y < y2, inside the grid
Carve(tiles, x1, y1, x2, y2, tile) ==
    [y \in 1..Len(tiles) |-> [x \in 1..Len(tiles[y]) |->
        IF x1 <= x - 1 /\ x - 1 < x2 /\ y1 <= y - 1 /\ y - 1 < y2 THEN tile ELSE tiles[y][x]]]

\* self.rng.randint(a, b) on a generation state: [val, st]
GenRandint(st, a, b) ==
    IF a > b THEN [val |-> a, st |-> [st EXCEPT !.raised = TRUE]]
    ELSE [val |-> RngRandint(st.rng, a, b).val, st |-> [st EXCEPT !.rng = RngNext(@)]]
\* self.rng.random() < 0.5
GenCoin(st) == [val |-> RngRandom(st.rng).val < 128, st |-> [st EXCEPT !.rng = RngNext(@)]]

BspNode(x, y, w, h) == [x |-> x, y |-> y, w |-> w, h |-> h, room |-> None, children |-> << >>]

\* GameMap._split_node: [node, st]
RECURSIVE SplitNode(_, _, _, _)
SplitNode(node, depth, max_depth, st) ==
    LET undecided == ~(4 * node.w > 5 * node.h) /\ ~(4 * node.h > 5 * node.w)
        coin == GenCoin(st)
        split_horizontal == IF 4 * node.w > 5 * node.h THEN FALSE
                            ELSE IF 4 * node.h > 5 * node.w THEN TRUE
                            ELSE coin.val
        st1 == IF undecided THEN coin.st ELSE st
        pos == IF split_horizontal THEN GenRandint(st1, node.h \div 3, (2 * node.h) \div 3)
               ELSE GenRandint(st1, node.w \div 3, (2 * node.w) \div 3)
        split_pos == pos.val
        child1 == IF split_horizontal THEN BspNode(node.x, node.y, node.w, split_pos)
                  ELSE BspNode(node.x, node.y, split_pos, node.h)
        child2 == IF split_horizontal
                  THEN BspNode(node.x, node.y + split_pos, node.w, node.h - split_pos)
                  ELSE BspNode(node.x + split_pos, node.y, node.w - split_pos, node.h)
        r1 == SplitNode(child1, depth + 1, max_depth, pos.st)
        r2 == SplitNode(child2, depth + 1, max_depth, r1.st)
    IN  IF depth >= max_depth \/ node.w < 8 \/ node.h < 6 \/ st.raised
        THEN [node |-> node, st |-> st]
        ELSE [node |-> [node EXCEPT !.children = <<r1.node, r2.node>>], st |-> r2.st]

\* GameMap._create_rooms_in_leaves: [node, st]; a leaf gets a room, carved into the tiles
RECURSIVE CreateRoomsInLeaves(_, _)
CreateRoomsInLeaves(node, st) ==
    LET padding == 1
        rw == GenRandint(st, node.w \div 2, node.w - padding * 2)
        rh == GenRandint(rw.st, node.h \div 2, node.h - padding * 2)
        rx == GenRandint(rh.st, padding, node.w - rw.val - padding)
        ry == GenRandint(rx.st, padding, node.h - rh.val - padding)
        room == [x1 |-> node.x + rx.val, y1 |-> node.y + ry.val,
                 x2 |-> node.x + rx.val + rw.val, y2 |-> node.y + ry.val + rh.val]
        c1 == CreateRoomsInLeaves(node.children[1], st)
        c2 == CreateRoomsInLeaves(node.children[2], c1.st)
    IN  IF st.raised THEN [node |-> node, st |-> st]
        ELSE IF node.children = << >>
        THEN IF ry.st.raised THEN [node |-> node, st |-> ry.st]
             ELSE [node |-> [node EXCEPT !.room = Some(room)],
                   st |-> [ry.st EXCEPT !.rooms = Append(@, room),
                                        !.tiles = Carve(@, room.x1, room.y1, room.x2, room.y2, TILE_FLOOR)]]
        ELSE [node |-> [node EXCEPT !.children = <<c1.node, c2.node>>], st |-> c2.st]

\* GameMap._get_random_room_from_subtree: [room, st]; a random child at each inner node
RECURSIVE GetRandomRoomFromSubtree(_, _)
GetRandomRoomFromSubtree(node, st) ==
    LET pick == GenRandint(st, 1, Len(node.children))
    IN  IF IsSome(node.room) THEN [room |-> node.room, st |-> st]
        ELSE IF node.children # << >>
        THEN GetRandomRoomFromSubtree(node.children[pick.val], pick.st)
        ELSE [room |-> None, st |-> st]

\* GameMap._create_corridor_between_rooms: an L-shaped corridor between random points
CreateCorridorBetweenRooms(room1, room2, st) ==
    LET x1 == GenRandint(st, room1.x1, room1.x2 - 1)
        y1 == GenRandint(x1.st, room1.y1, room1.y2 - 1)
        x2 == GenRandint(y1.st, room2.x1, room2.x2 - 1)
        y2 == GenRandint(x2.st, room2.y1, room2.y2 - 1)
        coin == GenCoin(y2.st)
        xlo == Min(x1.val, x2.val)
        xhi == Max(x1.val, x2.val)
        ylo == Min(y1.val, y2.val)
        yhi == Max(y1.val, y2.val)
        tiles == st.tiles
        h_then_v == Carve(Carve(tiles, xlo, y1.val, xhi + 1, y1.val + 1, TILE_FLOOR),
                          x2.val, ylo, x2.val + 1, yhi + 1, TILE_FLOOR)
        v_then_h == Carve(Carve(tiles, x1.val, ylo, x1.val + 1, yhi + 1, TILE_FLOOR),
                          xlo, y2.val, xhi + 1, y2.val + 1, TILE_FLOOR)
    IN  IF y2.st.raised THEN y2.st
        ELSE [coin.st EXCEPT !.tiles = IF coin.val THEN h_then_v ELSE v_then_h]

\* GameMap._connect_bsp_rooms: the children's subtrees first, then one corridor between them
RECURSIVE ConnectBspRooms(_, _)
ConnectBspRooms(node, st) ==
    LET s1 == ConnectBspRooms(node.children[1], st)
        s2 == ConnectBspRooms(node.children[2], s1)
        room1 == GetRandomRoomFromSubtree(node.children[1], s2)
        room2 == GetRandomRoomFromSubtree(node.children[2], room1.st)
    IN  IF node.children = << >> \/ st.raised THEN st
        ELSE IF IsSome(room1.room) /\ IsSome(room2.room)
        THEN CreateCorridorBetweenRooms(room1.room[1], room2.room[1], room2.st)
        ELSE room2.st

\* one of the orthogonal neighbours inside the grid is floor
HasFloorNeighbour(tiles, px, py) ==
    \E d \in {<<0, 1>>, <<1, 0>>, <<0, -1>>, <<-1, 0>>} :
        /\ 0 <= px + d[1] /\ px + d[1] < Width(tiles)
        /\ get_tile(tiles, px + d[1], py + d[2]) = TILE_FLOOR
\* tiles[y][x] as Python indexes it: a negative index counts from the end
TileAt(tiles, x, y) ==
    tiles[(IF y < 0 THEN y + Height(tiles) ELSE y) + 1][(IF x < 0 THEN x + Width(tiles) ELSE x) + 1]

\* the loop "for _ in range(100)" that places the Player in the first room
RECURSIVE PlaceStart(_, _)
PlaceStart(st, tries) ==
    LET room == st.rooms[1]
        px == GenRandint(st, room.x1, room.x2 - 1)
        py == GenRandint(px.st, room.y1, room.y2 - 1)
    IN  IF tries = 0 \/ st.raised THEN st
        ELSE IF py.st.raised THEN py.st
        ELSE IF TileAt(st.tiles, px.val, py.val) = TILE_FLOOR /\ HasFloorNeighbour(st.tiles, px.val, py.val)
        THEN [py.st EXCEPT !.player_start_pos = Some(<<px.val, py.val>>)]
        ELSE PlaceStart(py.st, tries - 1)
\* the loop that places the stairs in the last room
RECURSIVE PlaceStairs(_, _)
PlaceStairs(st, tries) ==
    LET room == st.rooms[Len(st.rooms)]
        sx == GenRandint(st, room.x1, room.x2 - 1)
        sy == GenRandint(sx.st, room.y1, room.y2 - 1)
    IN  IF tries = 0 \/ st.raised THEN st
        ELSE IF sy.st.raised THEN sy.st
        ELSE IF TileAt(st.tiles, sx.val, sy.val) = TILE_FLOOR
        THEN [sy.st EXCEPT !.stairs_down_pos = Some(<<sx.val, sy.val>>)]
        ELSE PlaceStairs(sy.st, tries - 1)
\* GameMap._place_player_and_stairs
PlacePlayerAndStairs(st) == PlaceStairs(PlaceStart(st, PLACE_TRIES), PLACE_TRIES)

\* the monster kinds of the biome of a depth, in the order rng.choice indexes them
BiomeMonsters(depth) ==
    LET biome_index == (depth - 1) \div 3
    IN  CASE biome_index = 0 -> <<"goblin", "spider", "skeleton">>
          [] biome_index = 1 -> <<"skeleton", "spider", "orc">>
          [] biome_index = 2 -> <<"spider", "orc", "goblin">>
          [] biome_index = 3 -> <<"orc", "skeleton", "goblin">>
          [] biome_index = 4 -> <<"skeleton", "spider", "orc">>
          [] OTHER -> <<"orc", "skeleton", "spider", "goblin">>

\* the loop "for _ in range(20)" that places one monster in a room; the new Monster draws its
\* level from the random module (st.sys), not from self.rng
RECURSIVE PlaceMonster(_, _, _, _)
PlaceMonster(st, room, depth, tries) ==
    LET mx == GenRandint(st, room.x1, room.x2 - 1)
        my == GenRandint(mx.st, room.y1, room.y2 - 1)
        kinds == BiomeMonsters(depth)
        kind == GenRandint(my.st, 1, Len(kinds))
        id == Len(st.monsters) + 1
    IN  IF tries = 0 \/ st.raised THEN st
        ELSE IF my.st.raised THEN my.st
        ELSE IF /\ TileAt(st.tiles, mx.val, my.val) = TILE_FLOOR
                /\ Some(<<mx.val, my.val>>) # st.player_start_pos
                /\ Some(<<mx.val, my.val>>) # st.stairs_down_pos
                /\ ~OccupiedBy(st.monsters, mx.val, my.val)
        THEN [kind.st EXCEPT !.monsters = Append(@, NewMonster(id, mx.val, my.val, kinds[kind.val],
                                                               depth, st.sys)),
                             !.sys = RngNext(@)]
        ELSE PlaceMonster(my.st, room, depth, tries - 1)
RECURSIVE PlaceMonsters(_, _, _)
PlaceMonsters(st, depth, count) ==
    LET room == GenRandint(st, 1, Len(st.rooms))
    IN  IF count = 0 \/ st.raised THEN st
        ELSE PlaceMonsters(PlaceMonster(room.st, st.rooms[room.val], depth, SPAWN_TRIES), depth, count - 1)
\* GameMap._generate_monsters
GenerateMonsters(st, depth) ==
    LET monster_count == GenRandint(st, depth + 2, depth * 2 + 5)
    IN  PlaceMonsters([monster_count.st EXCEPT !.monsters = << >>], depth, monster_count.val)

FloorItemIds == <<"health_potion", "defense_potion", "hp_boost_potion", "sword", "shield">>
\* a tile an item may be put on
ItemSpotFree(st, x, y) ==
    /\ TileAt(st.tiles, x, y) = TILE_FLOOR
    /\ Some(<<x, y>>) # st.player_start_pos
    /\ Some(<<x, y>>) # st.stairs_down_pos
    /\ ~OccupiedBy(st.monsters, x, y)
    /\ ~OccupiedBy(st.items, x, y)
RECURSIVE PlaceItem(_, _, _, _)
PlaceItem(st, room, depth, tries) ==
    LET ix == GenRandint(st, room.x1, room.x2 - 1)
        iy == GenRandint(ix.st, room.y1, room.y2 - 1)
        lvl == GenRandint(iy.st, -1, 1)
        kind == GenRandint(lvl.st, 1, Len(FloorItemIds))
    IN  IF tries = 0 \/ st.raised THEN st
        ELSE IF iy.st.raised THEN iy.st
        ELSE IF ItemSpotFree(st, ix.val, iy.val)
        THEN [kind.st EXCEPT !.items = Append(@, NewItem(ix.val, iy.val, FloorItemIds[kind.val], 1,
                                                         Max(1, depth + lvl.val)))]
        ELSE PlaceItem(iy.st, room, depth, tries - 1)
RECURSIVE PlaceItems(_, _, _)
PlaceItems(st, depth, count) ==
    LET room == GenRandint(st, 1, Len(st.rooms))
    IN  IF count = 0 \/ st.raised THEN st
        ELSE PlaceItems(PlaceItem(room.st, st.rooms[room.val], depth, SPAWN_TRIES), depth, count - 1)

\* the summon scroll: its level is drawn once, and once more past depth 10
RECURSIVE PlaceScroll(_, _, _, _)
PlaceScroll(st, room, depth, tries) ==
    LET sx == GenRandint(st, room.x1, room.x2 - 1)
        sy == GenRandint(sx.st, room.y1, room.y2 - 1)
        max_summon_level == Min(5, Max(1, depth \div 2 + 1))
        l1 == GenRandint(sy.st, 1, max_summon_level)
        l2 == GenRandint(l1.st, max_summon_level \div 2, max_summon_level)
        summon_level == IF depth > 10 THEN Max(l1.val, l2.val) ELSE l1.val
    IN  IF tries = 0 \/ st.raised THEN st
        ELSE IF sy.st.raised THEN sy.st
        ELSE IF ItemSpotFree(st, sx.val, sy.val)
        THEN [(IF depth > 10 THEN l2.st ELSE l1.st) EXCEPT
                 !.items = Append(@, NewItem(sx.val, sy.val, "summon", 1, summon_level))]
        ELSE PlaceScroll(sy.st, room, depth, tries - 1)
\* rng.random() < summon_chance, in 2560ths: 0.8 up to depth 10, then max(0.1, 0.5 - (depth - 10) * 0.05)
SummonChance(depth) == IF depth <= 10 THEN 2048 ELSE Max(256, 1280 - (depth - 10) * 128)
\* the summon scroll of _generate_items, once the other items are placed
GenerateScroll(st, depth) ==
    LET chance == RngRandom(st.rng)
        st2 == [st EXCEPT !.rng = RngNext(@)]
        room == GenRandint(st2, 1, Len(st.rooms))
    IN  IF st.raised THEN st
        ELSE IF chance.val * 10 < SummonChance(depth)
        THEN PlaceScroll(room.st, st.rooms[room.val], depth, SPAWN_TRIES)
        ELSE st2
\* GameMap._generate_items
GenerateItems(st, depth) ==
    LET item_count == GenRandint(st, 2, 4)
    IN  GenerateScroll(PlaceItems([item_count.st EXCEPT !.items = << >>], depth,
                                  item_count.val + depth \div 3), depth)

\* the loop "for _ in range(20)" that places one portal pair: both endpoints off the start, the
\* stairs, the monsters and the items
RECURSIVE PlacePortal(_, _, _, _)
PlacePortal(st, room1, room2, tries) ==
    LET x1 == GenRandint(st, room1.x1, room1.x2 - 1)
        y1 == GenRandint(x1.st, room1.y1, room1.y2 - 1)
        x2 == GenRandint(y1.st, room2.x1, room2.x2 - 1)
        y2 == GenRandint(x2.st, room2.y1, room2.y2 - 1)
        free(x, y) == /\ Some(<<x, y>>) # st.player_start_pos
                      /\ Some(<<x, y>>) # st.stairs_down_pos
                      /\ ~OccupiedBy(st.monsters, x, y)
                      /\ ~OccupiedBy(st.items, x, y)
    IN  IF tries = 0 \/ st.raised THEN st
        ELSE IF y2.st.raised THEN y2.st
        ELSE IF free(x1.val, y1.val) /\ free(x2.val, y2.val)
        THEN [y2.st EXCEPT !.portals = Append(@, <<x1.val, y1.val, x2.val, y2.val>>),
                           !.tiles = Carve(Carve(@, x1.val, y1.val, x1.val + 1, y1.val + 1, TILE_PORTAL),
                                           x2.val, y2.val, x2.val + 1, y2.val + 1, TILE_PORTAL)]
        ELSE PlacePortal(y2.st, room1, room2, tries - 1)
\* one pair: room1, room2 = self.rng.sample(rooms, 2), two rooms drawn without replacement
RECURSIVE PlacePortals(_, _)
PlacePortals(st, count) ==
    LET i == GenRandint(st, 1, Len(st.rooms))
        rest == RemoveAt(st.rooms, i.val)
        j == GenRandint(i.st, 1, Len(rest))
    IN  IF count = 0 \/ st.raised THEN st
        ELSE PlacePortals(PlacePortal(j.st, st.rooms[i.val], rest[j.val], SPAWN_TRIES), count - 1)
\* GameMap._generate_portals
GeneratePortals(st) ==
    LET count == GenRandint(st, 1, 2)
    IN  IF Len(st.rooms) < 3 THEN st ELSE PlacePortals(count.st, count.val)

\* GameMap(width, height, seed)
NewGameMap(width, height, seed, sys) ==
    [seed |-> seed, tiles |-> AllWalls(width, height), rng |-> RngSeed(seed), sys |-> sys,
     rooms |-> << >>, monsters |-> << >>, items |-> << >>, portals |-> << >>,
     player_start_pos |-> None, stairs_down_pos |-> None, raised |-> FALSE, calls |-> << >>]
Called(st, method) == [st EXCEPT !.calls = Append(@, method)]

\* the rooms of the leaves joined by corridors
ConnectLeaves(leaves) == ConnectBspRooms(leaves.node, Called(leaves.st, "_connect_bsp_rooms"))
CreateRooms(root) == CreateRoomsInLeaves(root.node, Called(root.st, "_create_rooms_in_leaves"))
\* the first half of generate_map: the tree, its rooms, the corridors
BuildRooms(st) ==
    ConnectLeaves(CreateRooms(SplitNode(BspNode(2, 2, Width(st.tiles) - 4, Height(st.tiles) - 4), 0,
                                        BSP_MAX_DEPTH, Called(st, "_split_node"))))
\* the second half: start and stairs, monsters, items, portals
Populate(st, depth) ==
    GeneratePortals(Called(
        GenerateItems(Called(
            GenerateMonsters(Called(
                PlacePlayerAndStairs(Called(st, "_place_player_and_stairs")),
                "_generate_monsters"), depth),
            "_generate_items"), depth),
        "_generate_portals"))
\* with fewer than two rooms _create_fallback_map takes over, and writes outside the grid of a
\* map that small (IndexError)
PopulateOrFallback(st, depth) ==
    IF st.raised THEN st
    ELSE IF Len(st.rooms) < 2 THEN [Called(st, "_create_fallback_map") EXCEPT !.raised = TRUE]
    ELSE Populate(st, depth)
\* GameMap.generate_map(depth); calls lists the methods it runs, in order
GenerateOn(map, depth) ==
    PopulateOrFallback(BuildRooms([map EXCEPT !.tiles = AllWalls(Width(map.tiles), Height(map.tiles))]),
                       depth)
\* GameMap(GenWidth, GenHeight, seed).generate_map(depth)
generate_map(seed, depth, sys) == GenerateOn(NewGameMap(GenWidth, GenHeight, seed, sys), depth)

(***************************************************************************)
(* Game.generate_new_level                                                 *)
(***************************************************************************)
\* the offsets of "for dx in range(-r, r + 1): for dy in range(-r, r + 1): if abs(dx) == r or
\* abs(dy) == r", in the order the loops visit them
Ring(r) ==
    LET n == 2 * r + 1
        all == ListOf([k \in 1..(n * n) |-> <<((k - 1) \div n) - r, ((k - 1) % n) - r>>])
    IN  SelectSeq(all, LAMBDA d : Abs(d[1]) = r \/ Abs(d[2]) = r)
RECURSIVE Rings(_, _)
Rings(a, b) == IF a > b THEN << >> ELSE Ring(a) \o Rings(a + 1, b)
AdjacentSpots == << <<1, 0>>, <<0, 1>>, <<-1, 0>>, <<0, -1>>, <<1, 1>>, <<-1, -1>>, <<1, -1>>, <<-1, 1>> >>

\* a spot check that does not look at the other summons
SummonSpotNoSummons(g, sref, cx, cy, d) ==
    /\ get_tile(g.tiles, cx + d[1], cy + d[2]) = TILE_FLOOR
    /\ <<cx + d[1], cy + d[2]>> # <<g.player.x, g.player.y>>
    /\ ~OccupiedBy(g.monsters, cx + d[1], cy + d[2])
\* a tile a summon may be put on next to (cx, cy): floor, not the Player's tile, no monster,
\* none of the other summons (dead ones included)
SummonSpotFree(g, sref, cx, cy, d) ==
    LET x == cx + d[1]
        y == cy + d[2]
    IN  /\ get_tile(g.tiles, x, y) = TILE_FLOOR
        /\ <<x, y>> # <<g.player.x, g.player.y>>
        /\ ~OccupiedBy(g.monsters, x, y)
        /\ ~OccupiedBy(SelectSeq(g.summons, LAMBDA s : s.ref # sref), x, y)

\* the default companion of depth 1: placed next to the Player, or not created at all
AddCompanion(g) ==
    LET name == RngChoice(g.global_rng, 8)
        ref == <<"summon", g.next_id>>
        spots == AdjacentSpots \o Rings(2, 9)
        k == FirstIdx(spots, LAMBDA d : SummonSpotFree(g, ref, g.player.x, g.player.y, d))
        g1 == [g EXCEPT !.global_rng = name.rng, !.sysrng = RngNext(@), !.next_id = @ + 1]
    IN  IF k = 0 THEN g1
        ELSE [g1 EXCEPT !.summons = Append(@, NewSummon(g.next_id, g.player.x + spots[k][1],
                                                        g.player.y + spots[k][2], 1, 1))]

\* int(max_hp * 0.25), at least 1
QuarterHeal(max_hp) == Max(max_hp \div 4, 1)

\* one iteration of "for summon in list(self.summons)" of generate_new_level
ArriveSummon(g, sref) ==
    LET si == IdxOfRef(g.summons, sref)
        s == g.summons[si]
        spots == AdjacentSpots \o Rings(2, 5)
        k == FirstIdx(spots, LAMBDA d : SummonSpotFree(g, sref, g.player.x, g.player.y, d))
    IN  IF ~is_alive(s) \/ k = 0 THEN [g EXCEPT !.summons = RemoveAt(@, si)]
        ELSE [g EXCEPT !.summons[si].hp = Min(s.max_hp, s.hp + QuarterHeal(s.max_hp)),
                       !.summons[si].x = g.player.x + spots[k][1],
                       !.summons[si].y = g.player.y + spots[k][2]]
RECURSIVE ArriveSummons(_, _, _)
ArriveSummons(g, snapshot, i) ==
    IF i > Len(snapshot) THEN g ELSE ArriveSummons(ArriveSummon(g, snapshot[i]), snapshot, i + 1)

\* an arrival that forgets to record the depth reached
PutOnMapDepthForgotten(g, seed, m) ==
    [g EXCEPT !.map_seed = seed, !.tiles = m.tiles, !.monsters = m.monsters,
              !.items = m.items, !.portals = m.portals, !.stairs_down_pos = m.stairs_down_pos,
              !.player_start_pos = m.player_start_pos, !.sysrng = m.sys, !.map_calls = m.calls,
              !.player.x = m.player_start_pos[1][1], !.player.y = m.player_start_pos[1][2]]
\* the new map becomes current_map and the Player stands on its start
PutOnMap(g, seed, m) ==
    [g EXCEPT !.map_seed = seed, !.tiles = m.tiles, !.monsters = m.monsters,
              !.items = m.items, !.portals = m.portals, !.stairs_down_pos = m.stairs_down_pos,
              !.player_start_pos = m.player_start_pos, !.sysrng = m.sys, !.map_calls = m.calls,
              !.player.x = m.player_start_pos[1][1], !.player.y = m.player_start_pos[1][2],
              !.player.depth_reached = g.dungeon_depth]
WithCompanion(g) == IF g.dungeon_depth = 1 /\ g.summons = << >> THEN AddCompanion(g) ELSE g
\* the Player gets a quarter of the effective maximum back
HealPlayer(g) ==
    [g EXCEPT !.player.hp = Min(get_max_hp(g.player), g.player.hp + QuarterHeal(get_max_hp(g.player)))]
ArriveAll(g) == ArriveSummons(g, Refs(g.summons), 1)
\* the rest of generate_new_level once the map m is generated; without a start position the
\* unpacking of player_start_pos raises
EnterLevel(g, seed, m) ==
    IF m.raised \/ m.player_start_pos = None THEN [g EXCEPT !.crashed = TRUE]
    ELSE save_game_state(Logged(ArriveAll(HealPlayer(WithCompanion(PutOnMap(g, seed, m)))),
                                PlayerRef, "descend", None))
\* Game.generate_new_level
generate_new_level(g) ==
    LET level_seed == RngRandint(g.global_rng, 0, MaxSeed)
    IN  EnterLevel([g EXCEPT !.dungeon_depth = @ + 1, !.global_rng = level_seed.rng], level_seed.val,
                   generate_map(level_seed.val, g.dungeon_depth + 1, g.sysrng))

(***************************************************************************)
(* Game.handle_player_action                                               *)
(***************************************************************************)
\* a living summon follows the Player through the portal to the first free tile around the
\* destination, if there is one within 3 tiles
FollowSummon(g, i, cx, cy) ==
    LET s == g.summons[i]
        spots == Rings(1, 3)
        k == FirstIdx(spots, LAMBDA d : SummonSpotFree(g, s.ref, cx, cy, d))
    IN  IF ~is_alive(s) \/ k = 0 THEN g
        ELSE [g EXCEPT !.summons[i].x = cx + spots[k][1], !.summons[i].y = cy + spots[k][2]]
RECURSIVE FollowSummons(_, _, _, _)
FollowSummons(g, i, cx, cy) ==
    IF i > Len(g.summons) THEN g ELSE FollowSummons(FollowSummon(g, i, cx, cy), i + 1, cx, cy)

\* a portal check that sends the Player through and leaves the summons behind
TeleportAlone(g) ==
    LET here == <<g.player.x, g.player.y>>
        k == FirstIdx(g.portals, LAMBDA q : here = <<q[1], q[2]>> \/ here = <<q[3], q[4]>>)
        dest == IF here = <<g.portals[k][1], g.portals[k][2]>> THEN <<g.portals[k][3], g.portals[k][4]>>
                ELSE <<g.portals[k][1], g.portals[k][2]>>
    IN  IF k = 0 THEN g
        ELSE Logged([g EXCEPT !.player.x = dest[1], !.player.y = dest[2]], PlayerRef, "teleport", None)
\* the portal check after a move: the first pair with an endpoint under the Player sends the
\* Player to the other endpoint, and the summons after them
Teleport(g) ==
    LET here == <<g.player.x, g.player.y>>
        k == FirstIdx(g.portals, LAMBDA q : here = <<q[1], q[2]>> \/ here = <<q[3], q[4]>>)
        q == g.portals[k]
        dest == IF here = <<q[1], q[2]>> THEN <<q[3], q[4]>> ELSE <<q[1], q[2]>>
        g1 == Logged([g EXCEPT !.player.x = dest[1], !.player.y = dest[2]], PlayerRef, "teleport", None)
    IN  IF k = 0 THEN g ELSE FollowSummons(g1, 1, dest[1], dest[2])

\* a pickup that takes the item off the map whether or not add_item took it
PickupAlways(g) ==
    LET k == FirstIdx(g.items, LAMBDA i : i.x = g.player.x /\ i.y = g.player.y)
    IN  IF k # 0 THEN [g EXCEPT !.player = add_item(g.player, g.items[k]).player, !.items = RemoveAt(@, k)]
        ELSE g
\* the item check after a move: the first item under the Player is picked up if add_item takes it
Pickup(g) ==
    LET k == FirstIdx(g.items, LAMBDA i : i.x = g.player.x /\ i.y = g.player.y)
        r == add_item(g.player, g.items[k])
    IN  IF k # 0 /\ r.ok THEN [g EXCEPT !.player = r.player, !.items = RemoveAt(@, k)] ELSE g

\* a swap in which the Player takes the summon's tile and the summon stays on it
SwapOneWay(g, si, new_x, new_y) == [ok |-> TRUE, g |-> [g EXCEPT !.player.x = new_x, !.player.y = new_y]]
\* the Player's step onto the tile of a living summon: the two swap places when allowed
SwapWith(g, si, new_x, new_y) ==
    LET others == SelectSeq(g.summons, LAMBDA s : s.ref # g.summons[si].ref)
    IN  IF /\ InBounds(g.tiles, new_x, new_y)
           /\ g.tiles[new_y + 1][new_x + 1] # TILE_WALL
           /\ ~OccupiedBy(g.monsters, new_x, new_y)
           /\ ~OccupiedBy(others, g.player.x, g.player.y)
        THEN [ok |-> TRUE,
              g |-> [g EXCEPT !.player.x = new_x, !.player.y = new_y,
                              !.summons[si].x = g.player.x, !.summons[si].y = g.player.y]]
        ELSE [ok |-> FALSE, g |-> g]

\* an end of handle_player_action that ends the turn only when the Player has moved
FinishIfMoved(g, moved) ==
    IF ~moved THEN g
    ELSE IF Some(<<g.player.x, g.player.y>>) = g.stairs_down_pos THEN generate_new_level(g)
    ELSE end_player_turn(g)
\* an end of handle_player_action whose descent falls through to the end of the turn
FinishWithoutReturn(g, moved) ==
    IF moved /\ Some(<<g.player.x, g.player.y>>) = g.stairs_down_pos
    THEN end_player_turn(generate_new_level(g))
    ELSE end_player_turn(g)
\* the end of handle_player_action: a move onto the stairs descends and returns, everything
\* else ends the turn
FinishAction(g, moved) ==
    IF moved /\ Some(<<g.player.x, g.player.y>>) = g.stairs_down_pos THEN generate_new_level(g)
    ELSE end_player_turn(g)
\* Game.handle_player_action(dx, dy)
handle_player_action(g, dx, dy) ==
    LET g0 == [g EXCEPT !.tick_log = << >>]
        new_x == g.player.x + dx
        new_y == g.player.y + dy
        at(e) == e.x = new_x /\ e.y = new_y /\ is_alive(e)
        ti == FirstIdx(g.monsters, at)
        si == FirstIdx(g.summons, at)
        mv == EntityMove(g.player, dx, dy, g.tiles, g.monsters \o g.summons)
        step == IF si # 0 THEN SwapWith(g0, si, new_x, new_y)
                ELSE [ok |-> mv.ok, g |-> [g0 EXCEPT !.player.x = mv.x, !.player.y = mv.y]]
    IN  FinishAction(IF ti # 0 THEN combat(g0, PlayerRef, g.monsters[ti].ref)
                     ELSE IF step.ok THEN Pickup(Teleport(Logged(step.g, PlayerRef, "move", None)))
                     ELSE Logged(g0, PlayerRef, "blocked", None),
                     ti = 0 /\ step.ok)

(***************************************************************************)
(* Loading: GameMap.from_dict, Game.load_game_state                        *)
(***************************************************************************)
\* the saved monsters rebuilt one by one, each constructor drawing from the random module
RECURSIVE MonstersFromDict(_, _, _)
MonstersFromDict(data, i, acc) ==
    IF i > Len(data) THEN acc
    ELSE MonstersFromDict(data, i + 1,
            [list |-> Append(acc.list, MonsterFromDict(i, data[i], acc.sys)), sys |-> RngNext(acc.sys)])
\* "for x1, y1, x2, y2 in game_map.portals": both endpoints become portal tiles
RECURSIVE RestorePortalTiles(_, _, _)
RestorePortalTiles(tiles, portals, i) ==
    IF i > Len(portals) THEN tiles
    ELSE LET q == portals[i]
         IN  RestorePortalTiles(Carve(Carve(tiles, q[1], q[2], q[1] + 1, q[2] + 1, TILE_PORTAL),
                                      q[3], q[4], q[3] + 1, q[4] + 1, TILE_PORTAL), portals, i + 1)
\* GameMap.from_dict: the map is generated again from the seed, for depth 1, and the saved
\* monsters, items and portals put over it
Overlay(m, data) ==
    LET ms == MonstersFromDict(data.monsters, 1, [list |-> << >>, sys |-> m.sys])
    IN  [m EXCEPT !.monsters = ms.list, !.sys = ms.sys,
                  !.items = ListOf([i \in 1..Len(data.items) |-> ItemFromDict(data.items[i])]),
                  !.portals = data.portals,
                  !.tiles = RestorePortalTiles(m.tiles, data.portals, 1)]
GameMapFromDict(data, sys) == Overlay(generate_map(data.seed, 1, sys), data)

\* a load that restores the Player and the level but leaves depth and turn as __init__ set them
LoadedWithoutCounters(g, state, m) ==
    [g EXCEPT !.player = PlayerFromDict(state.player),
              !.global_rng = RngStateFromJson(state.global_seed).internal.state,
              !.map_seed = m.seed, !.tiles = m.tiles, !.monsters = m.monsters,
              !.items = m.items, !.portals = m.portals,
              !.stairs_down_pos = m.stairs_down_pos, !.player_start_pos = m.player_start_pos,
              !.map_calls = m.calls,
              !.tick_log = <<Event(PlayerRef, "load", None, 0)>>]
\* the body of load_game_state, m the map GameMap.from_dict returned; summons is the one key
\* the state may lack
Loaded(g, state, m) ==
    LET rng_state == RngStateFromJson(state.global_seed)
        n == IF "summons" \in DOMAIN state THEN Len(state.summons) ELSE 0
    IN  IF ~RngSetStateOk(rng_state) \/ m.raised
        THEN [g EXCEPT !.crashed = TRUE, !.tick_log = <<Event(PlayerRef, "load", None, 0)>>]
        ELSE [g EXCEPT !.player = PlayerFromDict(state.player),
                       !.dungeon_depth = state.dungeon_depth, !.turn_count = state.turn_count,
                       !.global_rng = rng_state.internal.state,
                       !.map_seed = m.seed, !.tiles = m.tiles, !.monsters = m.monsters,
                       !.items = m.items, !.portals = m.portals,
                       !.stairs_down_pos = m.stairs_down_pos, !.player_start_pos = m.player_start_pos,
                       !.map_calls = m.calls,
                       !.summons = ListOf([i \in 1..n |-> SummonFromDict(i, state.summons[i])]),
                       !.next_id = n + 1,
                       !.sysrng = RngAdvance(m.sys, n),
                       !.tick_log = <<Event(PlayerRef, "load", None, 0)>>]
\* the keys that load_game_state, Player.from_dict and GameMap.from_dict subscript: a
\* state without one of them raises KeyError
StateKeys == {"player", "dungeon_depth", "turn_count", "global_seed", "map"}
PlayerKeys == {"x", "y", "inventory"}
MapKeys == {"seed", "monsters", "items"}
HasFields(state) ==
    /\ StateKeys \subseteq DOMAIN state
    /\ PlayerKeys \subseteq DOMAIN state.player
    /\ MapKeys \subseteq DOMAIN state.map
\* Game.load_game_state on the Game object g that Game.__init__ has just set up
load_game_state(g, state) ==
    IF HasFields(state) THEN Loaded(g, state, GameMapFromDict(state.map, g.sysrng))
    ELSE [g EXCEPT !.crashed = TRUE, !.tick_log = <<Event(PlayerRef, "load", None, 0)>>]
IsUnreadable(file) == "bytes" \in DOMAIN file
\* Persistence.load_game: a file that cannot be read is logged and deleted
load_game(g) ==
    IF IsSome(g.checkpoint) /\ IsUnreadable(g.checkpoint[1])
    THEN [g EXCEPT !.checkpoint = None, !.tick_log = Append(@, Event(PlayerRef, "discard", None, 0))]
    ELSE g

\* Game.__init__ before load_or_start_game: seed is what random.Random() starts from, sys the
\* state of the random module of the new process
NewGame(seed, sys, no_save, checkpoint) ==
    [player |-> NewPlayer(0, 0), monsters |-> << >>, items |-> << >>, tiles |-> << >>,
     portals |-> << >>, stairs_down_pos |-> None, player_start_pos |-> None, map_seed |-> 0,
     summons |-> << >>, global_rng |-> RngSeed(seed), sysrng |-> sys, dungeon_depth |-> 0,
     turn_count |-> 0, game_over |-> FALSE, next_id |-> 1, tick_log |-> << >>,
     no_save |-> no_save, checkpoint |-> checkpoint, disk |-> "ok", crashed |-> FALSE,
     map_calls |-> << >>]
\* Game.new_game, the seed given by --seed
new_game(g, seed) ==
    generate_new_level([g EXCEPT !.global_rng = RngSeed(seed), !.dungeon_depth = 0, !.turn_count = 0,
                                 !.game_over = FALSE, !.summons = << >>, !.player = NewPlayer(0, 0)])
\* "if game_state:" is false for no file and for an empty dict
StartFrom(g, seed) ==
    IF IsSome(g.checkpoint) /\ DOMAIN g.checkpoint[1] # {}
    THEN load_game_state(g, g.checkpoint[1]) ELSE new_game(g, seed)
\* Game.load_or_start_game: the checkpoint if one can be read, a new game otherwise
load_or_start_game(g, seed) == StartFrom(load_game(g), seed)

(***************************************************************************)
(* The state: the fields of the Game object and of its current_map, the    *)
(* checkpoint file, and what the last handler call did                     *)
(***************************************************************************)
VARIABLES player, monsters, items, tiles, portals, stairs_down_pos, player_start_pos, map_seed,
          map_calls, summons, global_rng, sysrng, dungeon_depth, turn_count, game_over, next_id,
          tick_log, no_save, checkpoint, disk, crashed, steps
vars == <<player, monsters, items, tiles, portals, stairs_down_pos, player_start_pos, map_seed,
          map_calls, summons, global_rng, sysrng, dungeon_depth, turn_count, game_over, next_id,
          tick_log, no_save, checkpoint, disk, crashed, steps>>

Session ==
    [player |-> player, monsters |-> monsters, items |-> items, tiles |-> tiles, portals |-> portals,
     stairs_down_pos |-> stairs_down_pos, player_start_pos |-> player_start_pos,
     map_seed |-> map_seed, map_calls |-> map_calls, summons |-> summons,
     global_rng |-> global_rng, sysrng |-> sysrng, dungeon_depth |-> dungeon_depth,
     turn_count |-> turn_count, game_over |-> game_over, next_id |-> next_id,
     tick_log |-> tick_log, no_save |-> no_save, checkpoint |-> checkpoint, disk |-> disk,
     crashed |-> crashed]
\* the session g is the state, as initial state (Start) or as next state (Becomes)
Start(g) ==
    /\ player = g.player /\ monsters = g.monsters /\ items = g.items /\ tiles = g.tiles
    /\ portals = g.portals /\ stairs_down_pos = g.stairs_down_pos
    /\ player_start_pos = g.player_start_pos /\ map_seed = g.map_seed /\ map_calls = g.map_calls
    /\ summons = g.summons /\ global_rng = g.global_rng /\ sysrng = g.sysrng
    /\ dungeon_depth = g.dungeon_depth /\ turn_count = g.turn_count /\ game_over = g.game_over
    /\ next_id = g.next_id /\ tick_log = g.tick_log /\ no_save = g.no_save
    /\ checkpoint = g.checkpoint /\ disk = g.disk /\ crashed = g.crashed
Becomes(g) ==
    /\ player' = g.player /\ monsters' = g.monsters /\ items' = g.items /\ tiles' = g.tiles
    /\ portals' = g.portals /\ stairs_down_pos' = g.stairs_down_pos
    /\ player_start_pos' = g.player_start_pos /\ map_seed' = g.map_seed /\ map_calls' = g.map_calls
    /\ summons' = g.summons /\ global_rng' = g.global_rng /\ sysrng' = g.sysrng
    /\ dungeon_depth' = g.dungeon_depth /\ turn_count' = g.turn_count /\ game_over' = g.game_over
    /\ next_id' = g.next_id /\ tick_log' = g.tick_log /\ no_save' = g.no_save
    /\ checkpoint' = g.checkpoint /\ disk' = g.disk /\ crashed' = g.crashed

(***************************************************************************)
(* Initial states: a new game, or the level below it entered with what the *)
(* Player carries there                                                    *)
(***************************************************************************)
Seeds == 0..(NumSeeds - 1)
\* what the random module of a process starts from
SysStates == {RngSeed(k) : k \in 1..NumSysStates}
Buff(amount, n) == [amount |-> amount, steps |-> n, py |-> "tuple"]

\* the Player on the stairs of depth 1, some turns into the game
Carried(kind) ==
    CASE kind = "boosted" ->
            [hp |-> 45, turn_count |-> 18, collected |-> 1, inventory |-> << >>, temp_buffs |-> [k \in {"hp"} |-> Buff(15, 2)]]
      [] kind = "shielded" ->
            [hp |-> 20, turn_count |-> 16, collected |-> 1, inventory |-> << >>, temp_buffs |-> [k \in {"defense"} |-> Buff(5, 1)]]
      [] kind = "wounded" ->
            [hp |-> 2, turn_count |-> 19, collected |-> 0, inventory |-> << >>, temp_buffs |-> EmptyDict]
      [] OTHER ->
            [hp |-> 12, turn_count |-> 11, collected |-> 5, temp_buffs |-> EmptyDict,
             inventory |-> <<NewItem(0, 0, "hp_boost_potion", 1, 1), NewItem(0, 0, "defense_potion", 2, 1),
                             NewItem(0, 0, "sword", 1, 1), NewItem(0, 0, "summon", 1, 1)>>]
Kinds == {"fresh", "boosted", "shielded", "stocked", "wounded"}

\* Game(args) with no checkpoint on disk, and for the other kinds the descent from depth 1
Descended(g, kind) ==
    LET c == Carried(kind)
    IN  IF kind = "fresh" \/ g.crashed THEN g
        ELSE generate_new_level([g EXCEPT !.player.hp = c.hp, !.player.inventory = c.inventory,
                                          !.player.temp_buffs = c.temp_buffs,
                                          !.player.items_collected = c.collected,
                                          !.turn_count = c.turn_count, !.tick_log = << >>])
LevelStart(kind, seed, sys) == Descended(load_or_start_game(NewGame(seed, sys, FALSE, None), seed), kind)

Init ==
    /\ \E kind \in Kinds, seed \in Seeds, sys \in SysStates : Start(LevelStart(kind, seed, sys))
    /\ steps = 0

(***************************************************************************)
(* Actions                                                                 *)
(***************************************************************************)
Playing == ~game_over /\ ~crashed /\ steps < MaxTurns
Dirs == {<<0, -1>>, <<0, 1>>, <<1, 0>>, <<-1, 0>>}

\* a movement key: Game.handle_player_action
Move(d) ==
    /\ Playing
    /\ Becomes(handle_player_action(Session, d[1], d[2]))
    /\ steps' = steps + 1

\* an inventory key: Game.handle_inventory_input
UseItem(i) ==
    /\ Playing
    /\ i <= Len(player.inventory)
    /\ Becomes(handle_inventory_input(Session, i))
    /\ steps' = steps + 1

\* Game.save_game_state, as called by the self tests and at the end of a headless run,
\* which saves after the death of the Player too
Save ==
    /\ ~crashed /\ steps < MaxTurns
    /\ Becomes([save_game_state(Session) EXCEPT
                   !.tick_log = <<Event(PlayerRef, "save", None, 0)>>])
    /\ steps' = steps + 1

\* the process ends and the program is started again: Game(args)
Relaunch(seed, sys) ==
    /\ ~crashed /\ steps < MaxTurns
    /\ Becomes(load_or_start_game([NewGame(seed, sys, no_save, checkpoint) EXCEPT !.disk = disk], seed))
    /\ steps' = steps + 1

\* the reset key, in play (Game.handle_input) and on the game over screen
\* (Game.handle_game_over): Persistence.reset_progress, then Game.new_game
ResetGame(seed) ==
    /\ ~crashed /\ steps < MaxTurns
    /\ Becomes(new_game([Session EXCEPT !.checkpoint = None,
                                        !.tick_log = <<Event(PlayerRef, "reset", None, 0)>>], seed))
    /\ steps' = steps + 1

Next ==
    \/ \E d \in Dirs : Move(d)
    \/ \E i \in 1..INVENTORY_SIZE : UseItem(i)
    \/ Save
    \/ \E sys \in SysStates : Relaunch(0, sys)
    \/ ResetGame(0)

Spec == Init /\ [][Next]_vars

(***************************************************************************)
(* Claims                                                                  *)
(***************************************************************************)
Entities == <<player>> \o monsters \o summons
Events(kind) == {k \in DOMAIN tick_log : tick_log[k].actor[1] = kind /\ tick_log[k].act # "decay"}

\* C1: no two living entities among the Player, the Monsters and the Summons stand on the
\* same tile, whatever the player did
C1_NoSharedTile ==
    \A i, j \in DOMAIN Entities :
        (i < j /\ is_alive(Entities[i]) /\ is_alive(Entities[j]))
            => <<Entities[i].x, Entities[i].y>> # <<Entities[j].x, Entities[j].y>>
C1_Teleported == \E k \in DOMAIN tick_log : tick_log[k].act = "teleport"

\* C2: every entity has 0 <= hp <= max_hp, the Player's maximum being the base plus an active
\* hp buff and the base alone once the buff has expired
C2_HpWithinMax ==
    /\ 0 <= player.hp /\ player.hp <= get_max_hp(player)
    /\ \A i \in DOMAIN monsters : 0 <= monsters[i].hp /\ monsters[i].hp <= monsters[i].max_hp
    /\ \A i \in DOMAIN summons : 0 <= summons[i].hp /\ summons[i].hp <= summons[i].max_hp

\* the step is a call of handle_player_action that could not move
BlockedStep == tick_log' # << >> /\ tick_log'[1].act = "blocked"
\* C3: a blocked player action does not advance the turn counter and triggers no summon
\* action, no monster action and no buff decay
C3_BlockedIsNoTick ==
    [][BlockedStep => /\ turn_count' = turn_count
                      /\ \A k \in DOMAIN tick_log' : tick_log'[k].actor = PlayerRef
                      /\ \A k \in DOMAIN tick_log' : tick_log'[k].act # "decay"]_vars

\* C4: within a tick the Player's action comes first, then the summons act, and only then the
\* monsters: no monster action precedes a summon action, no summon action the Player's
C4_PlayerSummonsMonsters ==
    /\ \A i \in Events("player"), j \in Events("summon") \cup Events("monster") : i < j
    /\ \A i \in Events("summon"), j \in Events("monster") : i < j
C4_AllThreeActed == Events("player") # {} /\ Events("summon") # {} /\ Events("monster") # {}

\* the step is a tick started by a movement key while the defense buff has one tick left
LastTickOfDefense ==
    /\ HasBuff(player, "defense") /\ player.temp_buffs["defense"].steps = 1
    /\ tick_log' # << >> /\ tick_log'[1].act \in {"move", "attack", "blocked"}
\* C5: the buff decay of a tick comes after its summon and monster actions, so a buff with one
\* tick left still counts in the combat of that tick's monster phase
C5_BuffCoversLastTick ==
    [][LastTickOfDefense =>
        \A k \in DOMAIN tick_log' :
            LET e == tick_log'[k]
                attacker == monsters'[IdxOfRef(monsters', e.actor)]
            IN  /\ e.act = "decay" => \A j \in DOMAIN tick_log' : tick_log'[j].actor # PlayerRef => j < k
                /\ (e.act = "attack" /\ e.target = PlayerRef)
                      => e.damage = CombatDamage(attacker, [player' EXCEPT !.temp_buffs = player.temp_buffs])]_vars

\* C6: in one tick a monster does one thing at most, a move or an attack on one target
C6_OneActionPerMonster ==
    \A i, j \in Events("monster") : tick_log[i].actor = tick_log[j].actor => i = j

\* a step that loads the checkpoint, taken when the checkpoint is a snapshot of the session
LoadStep == tick_log' = <<Event(PlayerRef, "load", None, 0)>>
SnapshotIsCurrent == checkpoint = Some(SaveState(Session))
\* an entity without its identity in the session
Body(e) == [e EXCEPT !.ref = <<e.ref[1], 0>>]
Bodies(list) == [i \in DOMAIN list |-> Body(list[i])]
\* the buffs of a Player as (amount, steps) pairs, a tuple and a list alike
BuffPairs(p) == [k \in DOMAIN p.temp_buffs |-> <<p.temp_buffs[k].amount, p.temp_buffs[k].steps>>]

\* C7: loading a snapshot of the session restores the turn counter, the depth, the
\* Player's hp, inventory and buffs, the monsters, the items and the summons, and the global
\* RNG goes on with the draw it would have produced without the save and load
C7_SaveLoadRestores ==
    [][(LoadStep /\ SnapshotIsCurrent)
        => /\ ~crashed'
           /\ turn_count' = turn_count /\ dungeon_depth' = dungeon_depth
           /\ player'.hp = player.hp /\ player'.inventory = player.inventory
           /\ BuffPairs(player') = BuffPairs(player)
           /\ Bodies(monsters') = Bodies(monsters) /\ items' = items
           /\ Bodies(summons') = Bodies(summons)
           /\ global_rng' = global_rng
           /\ RngRandint(global_rng', 0, MaxSeed).val = RngRandint(global_rng, 0, MaxSeed).val]_vars
C7_LoadedMidLevel ==
    /\ tick_log = <<Event(PlayerRef, "load", None, 0)>> /\ ~crashed
    /\ turn_count > 0 /\ player.hp < player.max_hp /\ player.inventory # << >>
    /\ player.temp_buffs # EmptyDict /\ monsters # << >> /\ summons # << >>

PortalEnds(list) == {<<list[i][1], list[i][2]>> : i \in DOMAIN list} \cup
                    {<<list[i][3], list[i][4]>> : i \in DOMAIN list}
PortalCells(grid) == {c \in (0..(Width(grid) - 1)) \X (0..(Height(grid) - 1)) :
                        get_tile(grid, c[1], c[2]) = TILE_PORTAL}
\* C8: the level rebuilt on load has the tile grid of the saved level, the same start and
\* stairs positions, and Portal cells exactly at the endpoints of the persisted portal pairs
C8_LoadRebuildsGrid ==
    [][(LoadStep /\ SnapshotIsCurrent /\ ~crashed')
        => /\ tiles' = tiles
           /\ player_start_pos' = player_start_pos /\ stairs_down_pos' = stairs_down_pos
           /\ PortalCells(tiles') = PortalEnds(portals')]_vars
C8_LoadedBelowFirst ==
    tick_log = <<Event(PlayerRef, "load", None, 0)>> /\ ~crashed /\ dungeon_depth > 1

\* C11: in every state of a session the Player's hp is 0 only when game_over is set: the
\* combat step that brings the hp to 0 sets it, and nothing but a reset clears it
C11_DeadMeansGameOver == (~crashed /\ player.hp = 0) => game_over
\* a combat step has killed the Player
C11_KilledInCombat ==
    /\ game_over /\ player.hp = 0
    /\ \E i \in DOMAIN tick_log : tick_log[i].act = "attack" /\ tick_log[i].target = PlayerRef

\* C12: a checkpoint written at or after the death of the Player is never loaded into a
\* running session: the session a start makes of it is over
C12_DeadNeverResumed ==
    [][(LoadStep /\ IsSome(checkpoint) /\ checkpoint[1].player.hp = 0) => (game_over' \/ crashed')]_vars
\* the checkpoint on disk is one of a dead Player
C12_DeadCheckpoint == game_over /\ IsSome(checkpoint) /\ checkpoint[1].player.hp = 0

\* a step of the reset key
ResetStep == tick_log' # << >> /\ tick_log'[1].act = "reset"
\* C24: without a reset, no tick, stairs descent, save, or load of a snapshot of the session
\* lowers the dungeon depth or the turn counter
C24_DepthAndTurnNeverDecrease ==
    [][(~ResetStep /\ (LoadStep => SnapshotIsCurrent))
          => (dungeon_depth' >= dungeon_depth /\ turn_count' >= turn_count)]_vars
\* a session saved and loaded again, below the first level and some turns into the game
C24_ResumedDeeper ==
    /\ tick_log = <<Event(PlayerRef, "load", None, 0)>> /\ ~crashed
    /\ steps >= 2 /\ dungeon_depth = 2 /\ turn_count >= 17

(***************************************************************************)
(* Level generation on its own: GameMap(width, height, seed) and           *)
(* generate_map(depth), run again with the same seed and depth while the   *)
(* random module goes on from where the generation before left it          *)
(***************************************************************************)
\* the session fields that hold a generated GameMap m
GenSession(m, depth) ==
    [NewGame(0, m.sys, TRUE, None) EXCEPT
        !.map_seed = m.seed, !.tiles = m.tiles, !.monsters = m.monsters, !.items = m.items,
        !.portals = m.portals, !.stairs_down_pos = m.stairs_down_pos,
        !.player_start_pos = m.player_start_pos, !.map_calls = m.calls,
        !.dungeon_depth = depth, !.crashed = m.raised,
        !.tick_log = <<Event(PlayerRef, "generate", None, 0)>>]
GenSeeds == 0..(NumGenSeeds - 1)
GenInit ==
    /\ \E seed \in GenSeeds, depth \in 1..MaxGenDepth, sys \in SysStates :
           Start(GenSession(generate_map(seed, depth, sys), depth))
    /\ steps = 0
Regenerate ==
    /\ ~crashed /\ steps < MaxTurns
    /\ Becomes(GenSession(generate_map(map_seed, dungeon_depth, sysrng), dungeon_depth))
    /\ steps' = steps + 1
GenNext == Regenerate
SpecGen == GenInit /\ [][GenNext]_vars

\* C9: a generation with the seed and the depth of the one before it gives the same tile
\* grid, the same start and stairs positions and the same monsters and items
C9_SameSeedSameLevel ==
    [][(tick_log' = <<Event(PlayerRef, "generate", None, 0)>> /\ ~crashed')
        => /\ map_seed' = map_seed /\ dungeon_depth' = dungeon_depth
           /\ tiles' = tiles
           /\ player_start_pos' = player_start_pos /\ stairs_down_pos' = stairs_down_pos
           /\ monsters' = monsters /\ items' = items]_vars
C9_Regenerated ==
    tick_log = <<Event(PlayerRef, "generate", None, 0)>> /\ steps > 0 /\ monsters # << >>

\* GameMap._can_reach_stairs: flood fill over Floor and Portal tiles from the start
Passable(grid, c) == get_tile(grid, c[1], c[2]) \in {TILE_FLOOR, TILE_PORTAL}
RECURSIVE Flood(_, _)
Flood(grid, visited) ==
    LET more == {c \in (0..(Width(grid) - 1)) \X (0..(Height(grid) - 1)) :
                    /\ c \notin visited /\ Passable(grid, c)
                    /\ \E d \in Dirs : <<c[1] - d[1], c[2] - d[2]>> \in visited}
    IN  IF more = {} THEN visited ELSE Flood(grid, visited \cup more)
can_reach_stairs(grid, start, stairs) ==
    IF ~IsSome(start) \/ ~IsSome(stairs) THEN TRUE
    ELSE stairs[1] \in Flood(grid, {start[1]})
\* what C10 says of the map itself
StairsReachable ==
    /\ IsSome(player_start_pos) /\ IsSome(stairs_down_pos)
    /\ can_reach_stairs(tiles, player_start_pos, stairs_down_pos)
\* C10: a generated level has a start and a stairs position with a path of Floor and Portal
\* tiles between them, and generate_map has checked that reachability
C10_ReachableAndChecked ==
    ~crashed => (StairsReachable /\ \E k \in DOMAIN map_calls : map_calls[k] = "_can_reach_stairs")
C10_Generated == ~crashed /\ map_calls # << >> /\ portals # << >>

(***************************************************************************)
(* Game.combat on its own: the Player, a Monster and a Summon side by side *)
(* in a room, their attack, defense and level drawn from bounded ranges    *)
(***************************************************************************)
\* the Player has drunk a defense potion of level potion (0: none) and has or has not
\* equipped the shield and the sword; the Monster has the level a depth near it gives
Arena(monster_id, level, potion, shield, sword) ==
    [NewGame(0, RngSeed(1), TRUE, None) EXCEPT
        !.player = [NewPlayer(2, 2) EXCEPT
            !.temp_buffs = IF potion = 0 THEN EmptyDict
                           ELSE [k \in {"defense"} |->
                                    Buff(ItemPower("defense_potion", potion), BUFF_DURATION)],
            !.equipped_armor = IF shield THEN Some(NewItem(0, 0, "shield", 1, 1)) ELSE None,
            !.equipped_weapon = IF sword THEN Some(NewItem(0, 0, "sword", 1, 1)) ELSE None],
        !.tiles = Carve(AllWalls(5, 5), 1, 1, 4, 4, TILE_FLOOR),
        !.monsters = <<MonsterOfLevel(1, 2, 1, monster_id, level)>>,
        !.summons = <<NewSummon(2, 1, 2, 1, 1)>>,
        !.next_id = 3, !.dungeon_depth = level]
CombatInit ==
    /\ \E monster_id \in MonsterIds, level \in 1..MaxMonsterLevel, potion \in 0..MaxPotionLevel,
          shield \in BOOLEAN, sword \in BOOLEAN :
            Start(Arena(monster_id, level, potion, shield, sword))
    /\ steps = 0
\* who fights whom: the calls of Game.combat in handle_player_action and end_player_turn
FightPairs ==
    {<<PlayerRef, <<"monster", 1>>>>, <<<<"monster", 1>>, PlayerRef>>,
     <<<<"summon", 2>>, <<"monster", 1>>>>, <<<<"monster", 1>>, <<"summon", 2>>>>}
Present(ref) ==
    \/ ref = PlayerRef
    \/ \E k \in DOMAIN Entities : Entities[k].ref = ref /\ is_alive(Entities[k])
\* Game.combat(attacker, defender)
Fight(aref, dref) ==
    /\ ~game_over /\ steps < MaxFights
    /\ Present(aref) /\ Present(dref)
    /\ Becomes(combat([Session EXCEPT !.tick_log = << >>], aref, dref))
    /\ steps' = steps + 1
CombatNext == \E pair \in FightPairs : Fight(pair[1], pair[2])
SpecCombat == CombatInit /\ [][CombatNext]_vars

\* C13: whoever attacks whom, with whatever attack and defense, the damage combat
\* applies is at least 1
C13_DamageAtLeastOne ==
    \A i \in DOMAIN tick_log : tick_log[i].act = "attack" => tick_log[i].damage >= 1
\* an attack no stronger than the defense it met has dealt damage
C13_WeakAttackLanded ==
    /\ tick_log # << >> /\ tick_log[1].act = "attack"
    /\ tick_log[1].actor = <<"monster", 1>> /\ tick_log[1].target = <<"summon", 2>>
    /\ monsters[1].atk <= summons[1].def_val

\* C14: a Monster of level L that attacks the Player with defense D deals
\* max(1, attack - floor(D * max(0.3, 1 - 0.1 * (L - 1)))); every other pair fights with
\* max(1, attack - defense), whatever the levels
C14_LevelScaledDamage ==
    [][\A i \in DOMAIN tick_log' :
          LET ev == tick_log'[i]
              a == Deref(Session, ev.actor)
              d == Deref(Session, ev.target)
          IN  ev.act = "attack" =>
                ev.damage = IF ev.actor[1] = "monster" /\ ev.target = PlayerRef
                            THEN Max(1, get_attack(a) - (get_defense(d) * Max(3, 11 - a.level)) \div 10)
                            ELSE Max(1, get_attack(a) - get_defense(d))]_vars
\* a Monster above level 1 has hit the Player, who has some defense
C14_MonsterHitPlayer ==
    /\ tick_log # << >> /\ tick_log[1].act = "attack"
    /\ tick_log[1].actor = <<"monster", 1>> /\ tick_log[1].target = PlayerRef
    /\ monsters[1].level > 1 /\ PlayerGetDefense(player) > 1


(***************************************************************************)
(* Player.update_buffs on its own: the Player drinks the potions carried,  *)
(* then update_buffs is called again and again                             *)
(***************************************************************************)
BuffsInit ==
    /\ \E defense \in 1..MaxPotionLevel, boost \in 1..MaxPotionLevel :
            Start([Arena("goblin", 1, 0, FALSE, FALSE) EXCEPT
                      !.player.inventory = <<NewItem(0, 0, "defense_potion", 1, defense),
                                             NewItem(0, 0, "hp_boost_potion", 1, boost)>>])
    /\ steps = 0
\* Item.use of the potion in slot i, before the first decay: the buff is granted
Drink(i) ==
    /\ steps = 0 /\ i <= Len(player.inventory)
    /\ Becomes([ItemUse(Session, i).g EXCEPT !.tick_log = <<Event(PlayerRef, "use", None, 0)>>])
    /\ UNCHANGED steps
\* self.player.update_buffs(), and what it returns
Decay ==
    /\ player.temp_buffs # EmptyDict \/ steps > 0
    /\ steps < MaxDecays
    /\ player' = update_buffs(player)
    /\ tick_log' = <<Event(PlayerRef, IF BuffsExpired(player) THEN "expired" ELSE "decay", None, 0)>>
    /\ steps' = steps + 1
    /\ UNCHANGED <<monsters, items, tiles, portals, stairs_down_pos, player_start_pos, map_seed,
                   map_calls, summons, global_rng, sysrng, dungeon_depth, turn_count, game_over,
                   next_id, no_save, checkpoint, disk, crashed>>
BuffsNext == (\E i \in 1..2 : Drink(i)) \/ Decay
SpecBuffs == BuffsInit /\ [][BuffsNext]_vars

\* C15: a buff granted for 15 steps is still there after each of the first 14 calls of
\* update_buffs, which report no expiration; the 15th call removes it and reports one
C15_ExpiresOnFifteenthCall ==
    [][(steps' = steps + 1) =>
          IF steps' < BUFF_DURATION
          THEN /\ tick_log'[1].act = "decay"
               /\ DOMAIN player'.temp_buffs = DOMAIN player.temp_buffs
               /\ \A k \in DOMAIN player.temp_buffs :
                      player'.temp_buffs[k].amount = player.temp_buffs[k].amount
          ELSE IF steps' = BUFF_DURATION
          THEN tick_log'[1].act = "expired" /\ player'.temp_buffs = EmptyDict
          ELSE tick_log'[1].act = "decay"]_vars
\* the 15th call has just removed both buffs
C15_FifteenthCall ==
    /\ steps = BUFF_DURATION /\ player.inventory = << >> /\ player.temp_buffs = EmptyDict
    /\ tick_log = <<Event(PlayerRef, "expired", None, 0)>>


(***************************************************************************)
(* The inventory on its own: Player.add_item as the pickup calls it and    *)
(* Game.handle_inventory_input on inventories up to the full 10 slots, in  *)
(* the room of the combat model or in a dead end with the Monster on the   *)
(* only tile next to the Player                                            *)
(***************************************************************************)
\* n slots of weapons and armor
Gear(n) == ListOf([k \in 1..n |-> NewItem(0, 0, IF k % 2 = 1 THEN "sword" ELSE "shield", 1, 1)])
\* the stacks carried behind them
StackChoices ==
    {<< >>,
     <<NewItem(0, 0, "health_potion", 1, 1)>>,
     <<NewItem(0, 0, "defense_potion", 2, 1)>>,
     <<NewItem(0, 0, "health_potion", 2, 1), NewItem(0, 0, "summon", 1, 1)>>}
DeadEnd(g) ==
    [g EXCEPT !.tiles = Carve(AllWalls(5, 5), 2, 1, 3, 3, TILE_FLOOR), !.summons = << >>,
              !.items = << >>]
Backpack(gear, stacks, hp, dead_end) ==
    LET g == [Arena("goblin", 1, 0, FALSE, FALSE) EXCEPT
                 !.player.inventory = Gear(gear) \o stacks,
                 !.player.items_collected = gear + Len(stacks),
                 !.player.hp = hp,
                 !.items = <<NewItem(3, 2, "shield", 1, 1), NewItem(2, 3, "health_potion", 1, 1)>>]
    IN  IF dead_end THEN DeadEnd(g) ELSE g
InventoryInit ==
    /\ \E gear \in 0..INVENTORY_SIZE, stacks \in StackChoices, hp \in {12, 30}, dead_end \in BOOLEAN :
          /\ gear + Len(stacks) <= INVENTORY_SIZE
          /\ Start(Backpack(gear, stacks, hp, dead_end))
    /\ steps = 0
\* self.player.add_item(item) of the pickup; the event holds the item's type, level and quantity
AddItem(item) ==
    /\ ~game_over /\ steps < MaxOps
    /\ player' = add_item(player, item).player
    /\ tick_log' = <<Event(PlayerRef, IF add_item(player, item).ok THEN "pickup" ELSE "full",
                           <<item.item_id, item.level>>, item.qty)>>
    /\ steps' = steps + 1
    /\ UNCHANGED <<monsters, items, tiles, portals, stairs_down_pos, player_start_pos, map_seed,
                   map_calls, summons, global_rng, sysrng, dungeon_depth, turn_count, game_over,
                   next_id, no_save, checkpoint, disk, crashed>>
\* the key of slot i in the inventory screen
UseSlot(i) ==
    /\ ~game_over /\ steps < MaxOps
    /\ i <= Len(player.inventory)
    /\ Becomes(handle_inventory_input(Session, i))
    /\ steps' = steps + 1
\* a movement key, in the room with an item on the tile east and on the tile south
Step(d) ==
    /\ ~game_over /\ ~crashed /\ steps < MaxOps
    /\ Becomes(handle_player_action(Session, d[1], d[2]))
    /\ steps' = steps + 1
InventoryNext ==
    \/ \E item_id \in ItemIds, level \in 1..MaxItemLevel : AddItem(NewItem(2, 2, item_id, 1, level))
    \/ \E i \in 1..INVENTORY_SIZE : UseSlot(i)
    \/ \E d \in Dirs : Step(d)
SpecInventory == InventoryInit /\ [][InventoryNext]_vars

\* the item an add_item step was called with, and the slot that holds a stack of its type
Added == tick_log'[1].act \in {"pickup", "full"}
StackOf(item_id) == FirstIdx(player.inventory, LAMBDA inv : inv.item_id = item_id)
\* C16: whatever the inventory holds, adding a stackable item whose type has a stack there
\* succeeds and merges into that slot, the number of slots unchanged and the quantity the
\* sum; an added weapon or armor never merges into a slot
C16_StackableMerges ==
    [][Added =>
          LET item_id == tick_log'[1].target[1]
              k == StackOf(item_id)
          IN  IF ItemStackable(item_id)
              THEN k # 0 => /\ tick_log'[1].act = "pickup"
                            /\ Len(player'.inventory) = Len(player.inventory)
                            /\ player'.inventory[k].qty = player.inventory[k].qty + tick_log'[1].damage
              ELSE tick_log'[1].act = "pickup"
                      => /\ Len(player'.inventory) = Len(player.inventory) + 1
                         /\ SubSeq(player'.inventory, 1, Len(player.inventory)) = player.inventory]_vars
\* a potion has been added to an inventory that holds a stack of its type
C16_AddedToStack ==
    /\ tick_log # << >> /\ tick_log[1].act \in {"pickup", "full"}
    /\ tick_log[1].target[1] = "health_potion"
    /\ \E k \in DOMAIN player.inventory : player.inventory[k].item_id = "health_potion"

\* C17: the inventory never holds more than 10 slots, whatever is picked up, used and
\* equipped; an item added to 10 slots of weapons and armor is refused, and the inventory and
\* the items-collected counter stay as they were
C17_AtMostTenSlots ==
    /\ [](Len(player.inventory) <= INVENTORY_SIZE)
    /\ [][(/\ Added
           /\ Len(player.inventory) = INVENTORY_SIZE
           /\ \A k \in DOMAIN player.inventory : ~ItemStackable(player.inventory[k].item_id))
          => (tick_log'[1].act = "full" /\ player' = player)]_vars
\* an item has been refused by 10 slots of weapons and armor
C17_RefusedWhenFull ==
    /\ tick_log # << >> /\ tick_log[1].act = "full"
    /\ Len(player.inventory) = INVENTORY_SIZE
    /\ \A k \in DOMAIN player.inventory : ~ItemStackable(player.inventory[k].item_id)

\* a use that consumed a unit of the stack in slot i
Consumed(i) ==
    /\ tick_log'[1].act = "use" /\ tick_log'[1].target = <<"slot", i>>
    /\ ItemStackable(player.inventory[i].item_id)
\* C18: every item in the inventory has quantity 1 or more; consuming the last unit of a
\* stack removes its slot, consuming a unit of a larger stack takes exactly 1 off the
\* quantity and keeps the slot
C18_QuantityAtLeastOne ==
    /\ [](\A k \in DOMAIN player.inventory : player.inventory[k].qty >= 1)
    /\ [][\A i \in DOMAIN player.inventory :
            Consumed(i) =>
                player'.inventory = IF player.inventory[i].qty = 1
                                    THEN RemoveAt(player.inventory, i)
                                    ELSE [player.inventory EXCEPT ![i].qty = @ - 1]]_vars
\* the last unit of a stack has been consumed after a unit of a larger one
C18_StackUsedUp ==
    /\ steps = 2 /\ tick_log # << >> /\ tick_log[1].act = "use"
    /\ player.equipped_weapon = None /\ player.equipped_armor = None
    /\ HasBuff(player, "defense")
    /\ \A k \in DOMAIN player.inventory : player.inventory[k].item_id # "defense_potion"


\* none of the eight tiles around the Player is a floor tile without a Monster or a Summon
BoxedIn ==
    \A d \in ((-1..1) \X (-1..1)) \ {<<0, 0>>} :
        \/ get_tile(tiles, player.x + d[1], player.y + d[2]) # TILE_FLOOR
        \/ OccupiedBy(monsters, player.x + d[1], player.y + d[2])
        \/ OccupiedBy(summons, player.x + d[1], player.y + d[2])
\* C20: a healing potion used at full hp, and a summon scroll used when no floor tile next
\* to the Player is free, fail and change nothing: the item and its slot, the Player, the
\* summons and the turn counter stay as they are, and neither summons nor monsters act
C20_RefusedUseChangesNothing ==
    \A i \in DOMAIN player.inventory :
        (\/ player.inventory[i].item_id = "health_potion" /\ player.hp >= get_max_hp(player)
         \/ player.inventory[i].item_id = "summon" /\ BoxedIn)
        => handle_inventory_input(Session, i) =
               [Session EXCEPT !.tick_log = <<Event(PlayerRef, "refused", <<"slot", i>>, 0)>>]
\* the scroll has just been refused in the dead end, after the potion at full hp
C20_BothRefused ==
    /\ steps = 2 /\ BoxedIn /\ player.hp >= get_max_hp(player) /\ monsters # << >>
    /\ \E i \in DOMAIN player.inventory :
          /\ player.inventory[i].item_id = "summon"
          /\ tick_log = <<Event(PlayerRef, "refused", <<"slot", i>>, 0)>>
    /\ \E k \in DOMAIN player.inventory : player.inventory[k].item_id = "health_potion"
    /\ turn_count = 0

\* the Player has moved onto the tile of an item with all 10 slots taken
SteppedOnItemWhenFull ==
    /\ tick_log' # << >> /\ tick_log'[1].act = "move"
    /\ Len(player.inventory) = INVENTORY_SIZE
    /\ \E k \in DOMAIN items : items[k].x = player'.x /\ items[k].y = player'.y
\* C21: a step onto the tile of an item with a full inventory does not pick it up: the item
\* stays on the map where it was, and the inventory, the equipment and the items-collected
\* counter stay as they were
C21_FullPickupRejected ==
    [][SteppedOnItemWhenFull =>
          /\ items' = items
          /\ player'.inventory = player.inventory
          /\ player'.equipped_weapon = player.equipped_weapon
          /\ player'.equipped_armor = player.equipped_armor
          /\ player'.items_collected = player.items_collected]_vars
\* the Player stands on an item with 10 slots taken, after the move there
C21_StandsOnItem ==
    /\ tick_log # << >> /\ tick_log[1].act = "move"
    /\ Len(player.inventory) = INVENTORY_SIZE
    /\ \E k \in DOMAIN items : items[k].x = player.x /\ items[k].y = player.y

(***************************************************************************)
(* Startup on its own: a process starts on the checkpoint file a stopped   *)
(* session left, intact or damaged                                         *)
(***************************************************************************)
Without(d, key) == [k \in DOMAIN d \ {key} |-> d[k]]
\* what became of the file: left as written, unreadable, an empty dict, or a key gone
Damages == {"intact", "unreadable", "empty", "summons", "x"} \cup StateKeys
Damaged(state, damage) ==
    CASE damage = "intact" -> state
      [] damage = "unreadable" -> Unreadable
      [] damage = "empty" -> EmptyDict
      [] damage = "x" -> [state EXCEPT !.player = Without(@, "x")]
      [] OTHER -> Without(state, damage)
Stopped(g, damage) == [g EXCEPT !.checkpoint = Some(Damaged(SaveState(g), damage)), !.tick_log = << >>]
LoadInit ==
    /\ \E kind \in Kinds, seed \in Seeds, sys \in SysStates, damage \in Damages :
          Start(Stopped(LevelStart(kind, seed, sys), damage))
    /\ steps = 0
LoadNext == \E sys \in SysStates : Relaunch(0, sys)
SpecLoad == LoadInit /\ [][LoadNext]_vars

\* a checkpoint file that does not hold a session: unreadable, or a key missing
Unloadable(file) == IsUnreadable(file) \/ ~HasFields(file)
\* C22: a process that starts on a checkpoint which cannot be turned into a session
\* (unreadable file, or a decoded snapshot with a field missing) does not fail: it begins
\* a new session at depth 1 and turn 0
C22_BadCheckpointStartsFresh ==
    [][(IsSome(checkpoint) /\ Unloadable(checkpoint[1]))
          => (~crashed' /\ dungeon_depth' = 1 /\ turn_count' = 0)]_vars
\* an unreadable file was deleted and a new session begun
C22_DiscardedAndFresh ==
    /\ ~crashed /\ tick_log # << >> /\ tick_log[1].act = "discard"
    /\ dungeon_depth = 1 /\ turn_count = 0

(***************************************************************************)
(* The end of a tick on its own: the turn is counted and, every 20th turn, *)
(* saved, on a disk that takes the write or not                            *)
(***************************************************************************)
AtEndOfTick(g, d, ns) == [g EXCEPT !.disk = d, !.no_save = ns, !.tick_log = << >>]
AutosaveInit ==
    /\ \E kind \in Kinds, seed \in Seeds, sys \in SysStates, d \in Disks, ns \in BOOLEAN :
          Start(AtEndOfTick(LevelStart(kind, seed, sys), d, ns))
    /\ steps = 0
\* the last two lines of Game.end_player_turn
TurnCounted ==
    /\ steps < MaxCounts
    /\ Becomes(CountTurn(Session))
    /\ steps' = steps + 1
SpecAutosave == AutosaveInit /\ [][TurnCounted]_vars

WriteFails == ~no_save /\ disk # "ok"
\* C23: the turn engine writes the checkpoint only when the turn counter has just been
\* raised to a multiple of 20, and when that write fails the session is as it was but for
\* the counter: Player, level, summons, depth, RNG state and message log unchanged
C23_FailedAutosaveChangesNothing ==
    [][/\ turn_count' % AUTOSAVE_INTERVAL_TURNS # 0 => (checkpoint' = checkpoint /\ tick_log' = tick_log)
       /\ (turn_count' % AUTOSAVE_INTERVAL_TURNS = 0 /\ WriteFails)
             => Session' = [Session EXCEPT !.turn_count = @ + 1, !.checkpoint = checkpoint']]_vars
\* the write of turn 20 failed on the way and play went on
C23_WriteFailed ==
    /\ ~no_save /\ disk = "full" /\ checkpoint = Some(Unreadable)
    /\ turn_count > AUTOSAVE_INTERVAL_TURNS /\ ~crashed

(***************************************************************************)
(* The turn engine in the room of Game.combat: the Monster north of the    *)
(* Player, the Summon west, the stairs east, and movement keys             *)
(***************************************************************************)
Room(monster_id, level, summon_hp, hp, sword) ==
    [Arena(monster_id, level, 0, FALSE, sword) EXCEPT
        !.summons[1].hp = summon_hp, !.player.hp = hp, !.stairs_down_pos = Some(<<3, 2>>)]
\* a room with a portal east of the Player and one to three summons around; the other
\* endpoint lies in a hall (open), with or without a Monster next to it, or walled in
PortalRoom(n, open, monster) ==
    [Arena("goblin", 1, 0, FALSE, FALSE) EXCEPT
        !.tiles = Carve(Carve(Carve(AllWalls(13, 5), 1, 1, IF open THEN 12 ELSE 4, 4, TILE_FLOOR),
                              2, 2, 3, 3, TILE_PORTAL), 8, 2, 9, 3, TILE_PORTAL),
        !.portals = << <<2, 2, 8, 2>> >>,
        !.player.x = 1, !.player.y = 2,
        !.monsters = IF monster THEN <<MonsterOfLevel(1, 9, 2, "goblin", 1)>> ELSE << >>,
        !.summons = SubSeq(<<NewSummon(2, 1, 1, 1, 1), NewSummon(3, 1, 3, 1, 1), NewSummon(4, 3, 2, 1, 1)>>, 1, n),
        !.next_id = n + 2]
\* the hp of the Summon and of the Player: about to fall, unhurt
ArenaInit ==
    /\ \/ \E monster_id \in MonsterIds, level \in 1..MaxMonsterLevel, summon_hp \in {1, 23},
             hp \in {1, 30}, sword \in BOOLEAN :
               Start(Room(monster_id, level, summon_hp, hp, sword))
       \/ \E n \in 1..3, open \in BOOLEAN, monster \in BOOLEAN : Start(PortalRoom(n, open, open /\ monster))
    /\ steps = 0
ArenaNext == \E d \in Dirs : Step(d)
SpecArena == ArenaInit /\ [][ArenaNext]_vars

Living(list) == \A k \in DOMAIN list : is_alive(list[k])
RefSet(list) == {list[k].ref : k \in DOMAIN list}
\* the entity left the lists of the level in this tick
Fell(ref) ==
    /\ turn_count' = turn_count + 1
    /\ ref \in (RefSet(monsters) \ RefSet(monsters')) \cup (RefSet(summons) \ RefSet(summons'))
\* the attack that killed it is the last event of the tick it has a part in
RemovedAtOnce(ref) ==
    \E k \in DOMAIN tick_log' :
        /\ tick_log'[k].act = "attack" /\ tick_log'[k].target = ref
        /\ \A j \in DOMAIN tick_log' : j > k => (tick_log'[j].actor # ref /\ tick_log'[j].target # ref)
\* C25: after every tick and every stairs descent the monster list and the summon list
\* hold living entities only; a Monster or Summon killed in a tick leaves its list with the
\* attack that killed it
C25_OnlyLivingListed ==
    /\ [](~crashed => (Living(monsters) /\ Living(summons)))
    /\ [][\A ref \in RefSet(monsters) \cup RefSet(summons) : Fell(ref) => RemovedAtOnce(ref)]_vars
\* a Monster has killed the Summon, and the tick is over
C25_SummonFell ==
    /\ summons = << >> /\ ~game_over /\ ~crashed /\ turn_count > 0
    /\ \E k \in DOMAIN tick_log : tick_log[k].act = "attack" /\ tick_log[k].target = <<"summon", 2>>

(***************************************************************************)
(* The descent on its own: Game.generate_new_level called on a session of  *)
(* depth 1, the hp of the Player and of the companion drawn from what the  *)
(* game can leave them with                                                *)
(***************************************************************************)
\* hp and buffs of the Player on the stairs: hurt, unhurt, under a vitality potion, and with
\* the hp the potion gave once its buff has expired
StairsPlayers ==
    {[hp |-> 1, temp_buffs |-> EmptyDict], [hp |-> 20, temp_buffs |-> EmptyDict],
     [hp |-> 30, temp_buffs |-> EmptyDict],
     [hp |-> 38, temp_buffs |-> [k \in {"hp"} |-> Buff(15, 5)]],
     [hp |-> 45, temp_buffs |-> [k \in {"hp"} |-> Buff(15, 5)]],
     [hp |-> 45, temp_buffs |-> EmptyDict]}
\* the hp of the companion: dead, hurt, unhurt
StairsSummonHps == {0, 5, 20, 23}
OnStairs(g, p, summon_hp) ==
    IF g.crashed THEN g
    ELSE [g EXCEPT !.player.hp = p.hp, !.player.temp_buffs = p.temp_buffs,
                   !.summons = ListOf([k \in DOMAIN g.summons |-> [g.summons[k] EXCEPT !.hp = summon_hp]]),
                   !.turn_count = 25, !.tick_log = << >>]
DescentInit ==
    /\ \E seed \in 0..(NumDescentSeeds - 1), sys \in SysStates, p \in StairsPlayers,
          summon_hp \in StairsSummonHps :
            Start(OnStairs(load_or_start_game(NewGame(seed, sys, FALSE, None), seed), p, summon_hp))
    /\ steps = 0
\* the Player steps on the stairs: Game.generate_new_level
Descend ==
    /\ ~game_over /\ ~crashed /\ steps < MaxDescents
    /\ Becomes(generate_new_level([Session EXCEPT !.tick_log = << >>]))
    /\ steps' = steps + 1
SpecDescent == DescentInit /\ [][Descend]_vars

\* C19: a descent never lowers the Player's hp: it adds max(1, floor(0.25 * max_hp)) up to
\* the effective maximum; and so for every Summon that arrives, with its own max_hp
C19_DescentHeals ==
    [][(steps' = steps + 1 /\ ~crashed') =>
          /\ player'.hp >= player.hp
          /\ player'.hp = Min(get_max_hp(player), player.hp + Max(1, get_max_hp(player) \div 4))
          /\ \A i \in DOMAIN summons, j \in DOMAIN summons' :
                summons'[j].ref = summons[i].ref =>
                    /\ summons'[j].hp >= summons[i].hp
                    /\ summons'[j].hp = Min(summons[i].max_hp,
                                            summons[i].hp + Max(1, summons[i].max_hp \div 4))]_vars
\* the Player and a hurt Summon have arrived on the level below
C19_ArrivedWithSummon ==
    /\ steps > 0 /\ ~crashed /\ dungeon_depth > 1
    /\ tick_log # << >> /\ tick_log[Len(tick_log)].act = "descend"
    /\ player.hp < player.max_hp
    /\ \E j \in DOMAIN summons : summons[j].hp < summons[j].max_hp

(***************************************************************************)
(* The arrival on a new level on its own: generate_new_level from the      *)
(* point where the map is generated, the map drawn from a room, a hall and *)
(* a closet, with one to three summons around the Player                   *)
(***************************************************************************)
\* where the summons stand around the Player on the level they leave
OldSpots == << <<1, 2>>, <<3, 2>>, <<2, 3>>, <<1, 1>>, <<3, 3>> >>
Followers(n, hp) == ListOf([k \in 1..n |-> [NewSummon(k + 1, OldSpots[k][1], OldSpots[k][2], 1, 1) EXCEPT !.hp = hp]])
Followed(n, hp) ==
    [Arena("goblin", 1, 0, FALSE, FALSE) EXCEPT
        !.summons = Followers(n, hp), !.next_id = n + 2, !.stairs_down_pos = Some(<<2, 2>>)]
FollowInit ==
    /\ \E n \in 1..MaxSummons, hp \in {5, 23} : Start(Followed(n, hp))
    /\ steps = 0
\* a generated map: the grid, the start, and a Monster or none at (2, 1)
MapOf(grid, start, monster) ==
    [NewGameMap(Len(grid[1]), Len(grid), 0, RngSeed(1)) EXCEPT
        !.tiles = grid, !.player_start_pos = Some(start), !.stairs_down_pos = Some(start),
        !.monsters = IF monster THEN <<MonsterOfLevel(1, 2, 1, "goblin", 1)>> ELSE << >>]
RoomTiles == Carve(AllWalls(5, 5), 1, 1, 4, 4, TILE_FLOOR)
HallTiles == Carve(AllWalls(9, 3), 1, 1, 8, 2, TILE_FLOOR)
ClosetTiles == Carve(AllWalls(5, 5), 2, 1, 3, 3, TILE_FLOOR)
Layouts ==
    {<<RoomTiles, <<2, 2>>>>, <<RoomTiles, <<1, 1>>>>, <<HallTiles, <<1, 1>>>>, <<HallTiles, <<4, 1>>>>,
     <<ClosetTiles, <<2, 2>>>>}
\* Game.generate_new_level with m the map generate_map has built
DescendInto(m) ==
    /\ ~game_over /\ ~crashed /\ steps < MaxDescents
    /\ Becomes(EnterLevel([Session EXCEPT !.dungeon_depth = @ + 1, !.tick_log = << >>,
                                          !.global_rng = RngRandint(global_rng, 0, MaxSeed).rng],
                           RngRandint(global_rng, 0, MaxSeed).val, m))
    /\ steps' = steps + 1
FollowNext == \E layout \in Layouts, monster \in BOOLEAN : DescendInto(MapOf(layout[1], layout[2], monster))
SpecFollow == FollowInit /\ [][FollowNext]_vars

\* how far the tile (x, y) is from the Player, in rings
RingOf(p, x, y) == Max(Abs(x - p.x), Abs(y - p.y))
\* a Floor tile within r rings of the Player that holds neither the Player nor a Monster nor
\* a Summon
FreeWithin(g, r) ==
    \E y \in 1..Len(g.tiles), x \in 1..Len(g.tiles[1]) :
        /\ g.tiles[y][x] = TILE_FLOOR
        /\ RingOf(g.player, x - 1, y - 1) \in 1..r
        /\ ~OccupiedBy(g.monsters, x - 1, y - 1) /\ ~OccupiedBy(g.summons, x - 1, y - 1)
FreeTileNear(g) == FreeWithin(g, 5)
\* the summon stands on a Floor tile within 5 rings of the Player, alone on its tile, and no
\* ring nearer to the Player has a free tile left
WellPlaced(g, j) ==
    /\ get_tile(g.tiles, g.summons[j].x, g.summons[j].y) = TILE_FLOOR
    /\ RingOf(g.player, g.summons[j].x, g.summons[j].y) \in 1..5
    /\ ~OccupiedBy(g.monsters, g.summons[j].x, g.summons[j].y)
    /\ \A i \in DOMAIN g.summons :
          i # j => <<g.summons[i].x, g.summons[i].y>> # <<g.summons[j].x, g.summons[j].y>>
    /\ ~FreeWithin(g, RingOf(g.player, g.summons[j].x, g.summons[j].y) - 1)
\* C26: after a stairs descent the Player stands on the start of the new level and every
\* summon still in the session on a Floor tile within 5 rings of it (next to it unless the
\* tiles next to it are taken) that is not the Player's tile, holds no Monster and no other
\* Summon; a living summon that is gone had no such tile
C26_SummonsArriveNearStart ==
    [][(dungeon_depth' = dungeon_depth + 1 /\ ~crashed')
          => /\ Some(<<player'.x, player'.y>>) = player_start_pos'
             /\ \A j \in DOMAIN summons' : WellPlaced(Session', j)
             /\ RefSet(summons') \subseteq RefSet(summons)
             /\ \A i \in DOMAIN summons :
                   (is_alive(summons[i]) /\ summons[i].ref \notin RefSet(summons')) => ~FreeTileNear(Session')]_vars
\* three summons have arrived in the hall, one of them beyond the tiles next to the Player
C26_ArrivedOnRing ==
    /\ steps > 0 /\ ~crashed /\ Len(summons) = 3
    /\ \E j \in DOMAIN summons : RingOf(player, summons[j].x, summons[j].y) >= 2

(***************************************************************************)
(* The movement key in Spec: what stands on the tile the Player moves      *)
(* toward, and what the handler does about it                              *)
(***************************************************************************)
Target(d) == <<player.x + d[1], player.y + d[2]>>
StandsOn(e, pos) == <<e.x, e.y>> = pos /\ is_alive(e)
MonsterAhead(d) == FirstIdx(monsters, LAMBDA e : StandsOn(e, Target(d)))
SummonAhead(d) == FirstIdx(summons, LAMBDA e : StandsOn(e, Target(d)))
\* the step of the movement key d: [ok, g], by a swap with the summon ahead or by Entity.move
Stepped(d) ==
    IF SummonAhead(d) # 0 THEN SwapWith(Session, SummonAhead(d), Target(d)[1], Target(d)[2])
    ELSE [ok |-> EntityMove(player, d[1], d[2], tiles, monsters \o summons).ok,
          g |-> [Session EXCEPT !.player.x = Target(d)[1], !.player.y = Target(d)[2]]]
\* the key d was pressed and this step is what the handler made of it
Pressed(d) == Session' = handle_player_action(Session, d[1], d[2])
\* the other endpoint of the first portal pair that has pos as an endpoint
Paired(pos) ==
    LET k == FirstIdx(portals, LAMBDA q : pos = <<q[1], q[2]>> \/ pos = <<q[3], q[4]>>)
    IN  IF pos = <<portals[k][1], portals[k][2]>> THEN <<portals[k][3], portals[k][4]>>
        ELSE <<portals[k][1], portals[k][2]>>
EndsOnPortal(d) == MonsterAhead(d) = 0 /\ Target(d) \in PortalEnds(portals) /\ Stepped(d).ok
\* summon i of the session t stands on a Floor tile within 3 rings of the Player, alone
Near3(t, i) ==
    /\ get_tile(t.tiles, t.summons[i].x, t.summons[i].y) = TILE_FLOOR
    /\ RingOf(t.player, t.summons[i].x, t.summons[i].y) \in 1..3
    /\ ~OccupiedBy(t.monsters, t.summons[i].x, t.summons[i].y)
    /\ \A j \in DOMAIN t.summons :
          j # i => <<t.summons[j].x, t.summons[j].y>> # <<t.summons[i].x, t.summons[i].y>>
\* t is the session g after the portal check: every living summon is near the Player, or
\* where it was with no free tile near the Player
SummonsFollowed(g, t) ==
    \A i \in DOMAIN g.summons :
        is_alive(g.summons[i]) =>
            \/ Near3(t, i)
            \/ (<<t.summons[i].x, t.summons[i].y>> = <<g.summons[i].x, g.summons[i].y>> /\ ~FreeWithin(t, 3))
Teleports == {k \in DOMAIN tick_log : tick_log[k].act = "teleport"}
\* C27: a move that ends on an endpoint of a portal pair puts the Player on the other
\* endpoint of that pair, once (no second teleport from there), and every living summon on a
\* free Floor tile within 3 tiles of it, or leaves the summon where it was when there is none
C27_TeleportOnceWithSummons ==
    [][\A d \in Dirs :
          (EndsOnPortal(d) /\ Pressed(d) /\ dungeon_depth' = dungeon_depth)
             => /\ <<player'.x, player'.y>> = Paired(Target(d))
                /\ Cardinality(Teleports') = 1
                /\ SummonsFollowed(Stepped(d).g, Teleport(Stepped(d).g))]_vars
\* the Player has come out of a portal and three summons are around them
C27_CameThrough ==
    /\ Teleports # {} /\ Len(summons) = 3 /\ ~crashed
    /\ <<player.x, player.y>> \in PortalEnds(portals)
    /\ \A i \in DOMAIN summons : RingOf(player, summons[i].x, summons[i].y) <= 3

\* the events of the step in which the Player attacks
PlayerAttacks == {k \in DOMAIN tick_log : tick_log[k].actor = PlayerRef /\ tick_log[k].act = "attack"}
\* C28: a movement key toward the tile of a living Monster makes the Player fight that
\* Monster once and stay where they are, and the rest of the tick then runs: the summons
\* act, the monsters act, the turn is counted
C28_AttackInsteadOfMove ==
    [][\A d \in Dirs :
          (MonsterAhead(d) # 0 /\ Pressed(d))
             => /\ tick_log'[1] = Event(PlayerRef, "attack", monsters[MonsterAhead(d)].ref,
                                         CombatDamage(player, monsters[MonsterAhead(d)]))
                /\ PlayerAttacks' = {1}
                /\ <<player'.x, player'.y>> = <<player.x, player.y>>
                /\ turn_count' = turn_count + 1
                /\ Session' = end_player_turn(combat([Session EXCEPT !.tick_log = << >>], PlayerRef,
                                                      monsters[MonsterAhead(d)].ref))]_vars
\* the Player has struck a Monster that lives on, and a Monster has struck back in the tick
C28_FoughtAndTickRan ==
    /\ tick_log # << >> /\ tick_log[1].actor = PlayerRef /\ tick_log[1].act = "attack"
    /\ tick_log[1].target \in RefSet(monsters)
    /\ \E k \in DOMAIN tick_log : tick_log[k].actor[1] = "monster" /\ tick_log[k].act = "attack"
    /\ turn_count > 0 /\ ~game_over

\* the session but for where the Player and the summons stand
Elsewhere(g) ==
    [g EXCEPT !.player.x = 0, !.player.y = 0,
              !.summons = ListOf([i \in DOMAIN g.summons |-> [g.summons[i] EXCEPT !.x = 0, !.y = 0]])]
\* C29: a movement key toward the tile of a living Summon swaps the two: the Player takes
\* the Summon's tile and the Summon the Player's, nothing else in the session changes by
\* the swap, and the Player is on that tile when the tick is over unless a portal or the
\* stairs lay under it
C29_SwapIsExact ==
    [][\A d \in Dirs :
          (SummonAhead(d) # 0 /\ MonsterAhead(d) = 0 /\ Pressed(d))
             => /\ Stepped(d).ok
                /\ <<Stepped(d).g.player.x, Stepped(d).g.player.y>> = Target(d)
                /\ <<Stepped(d).g.summons[SummonAhead(d)].x, Stepped(d).g.summons[SummonAhead(d)].y>>
                      = <<player.x, player.y>>
                /\ \A i \in DOMAIN summons :
                      i # SummonAhead(d) => Stepped(d).g.summons[i] = summons[i]
                /\ Elsewhere(Stepped(d).g) = Elsewhere(Session)
                /\ tick_log'[1] = Event(PlayerRef, "move", None, 0)
                /\ (Teleports' = {} /\ dungeon_depth' = dungeon_depth)
                      => <<player'.x, player'.y>> = Target(d)]_vars
\* the Player has stepped onto the tile of the Summon, which is next to them still
C29_Swapped ==
    /\ tick_log # << >> /\ tick_log[1].act = "move" /\ steps = 1 /\ ~crashed
    /\ monsters # << >> /\ <<player.x, player.y>> = <<1, 2>>
    /\ \E i \in DOMAIN summons : <<summons[i].x, summons[i].y>> = <<2, 2>>

\* the Monster the Player attacks first in this step falls to the attack
PlayerKills ==
    /\ tick_log' # << >> /\ tick_log'[1].actor = PlayerRef /\ tick_log'[1].act = "attack"
    /\ \E k \in DOMAIN monsters :
          monsters[k].ref = tick_log'[1].target /\ monsters[k].hp <= tick_log'[1].damage
\* the Monsters that fall in this step to a Summon's attack
FellToSummon ==
    {ref \in RefSet(monsters) :
        \E k \in DOMAIN tick_log' :
            /\ tick_log'[k].actor[1] = "summon" /\ tick_log'[k].act = "attack" /\ tick_log'[k].target = ref
            /\ \A j \in DOMAIN tick_log' : (j > k) => (tick_log'[j].actor # ref /\ tick_log'[j].target # ref)
            /\ \E m \in DOMAIN monsters :
                  /\ monsters[m].ref = ref
                  /\ monsters[m].hp <= tick_log'[k].damage
                        + (IF tick_log'[1].target = ref /\ tick_log'[1].actor = PlayerRef
                           THEN tick_log'[1].damage ELSE 0)}
\* C30: in a tick the Player's kill counter goes up by 1 when the Player's attack brings a
\* Monster's hp to 0 and is unchanged otherwise; a Monster that falls to a Summon leaves the
\* monster list and the counter is as it was
C30_KillsCountedForPlayerOnly ==
    [][(turn_count' = turn_count + 1)
          => /\ player'.monsters_killed = player.monsters_killed + (IF PlayerKills THEN 1 ELSE 0)
             /\ PlayerKills => tick_log'[1].target \notin RefSet(monsters')
             /\ FellToSummon \cap RefSet(monsters') = {}]_vars
\* a Summon has killed the Monster: the list is empty and the counter 0
C30_SummonKilled ==
    /\ monsters = << >> /\ player.monsters_killed = 0 /\ turn_count = 1 /\ ~crashed
    /\ \E k \in DOMAIN tick_log : tick_log[k].actor[1] = "summon" /\ tick_log[k].act = "attack"

(***************************************************************************)
(* Entity.move on its own: the Player on a field of floor tiles that       *)
(* reaches the border of the map, with or without one wall tile, a Summon  *)
(* (living or fallen) and a Monster or none as the list of other entities  *)
(***************************************************************************)
FieldSize == 4
FieldCells == (0..(FieldSize - 1)) \X (0..(FieldSize - 1))
\* the wall tile of the field; <<-1, -1>> is no wall at all
FieldWalls == {<<-1, -1>>, <<1, 1>>, <<2, 1>>}
Field(wall, at, summon_at, summon_hp, monster) ==
    [Arena("goblin", 1, 0, FALSE, FALSE) EXCEPT
        !.tiles = Carve(Carve(AllWalls(FieldSize, FieldSize), 0, 0, FieldSize, FieldSize, TILE_FLOOR),
                        wall[1], wall[2], wall[1] + 1, wall[2] + 1, TILE_WALL),
        !.player.x = at[1], !.player.y = at[2],
        !.monsters = IF monster THEN <<MonsterOfLevel(1, 3, 3, "goblin", 1)>> ELSE << >>,
        !.summons = <<[NewSummon(2, summon_at[1], summon_at[2], 1, 1) EXCEPT !.hp = summon_hp]>>]
FieldInit ==
    /\ \E wall \in FieldWalls, at \in FieldCells \ {<<3, 3>>}, summon_at \in FieldCells \ {<<3, 3>>},
          summon_hp \in {0, 23}, monster \in BOOLEAN :
            /\ at # wall /\ summon_at # wall /\ at # summon_at
            /\ Start(Field(wall, at, summon_at, summon_hp, monster))
    /\ steps = 0
\* the steps an entity asks of Entity.move: the four directions and the diagonals
Steps8 == {d \in (-1..1) \X (-1..1) : d # <<0, 0>>}
\* self.player.move(dx, dy, game_map, monsters + summons); the event keeps the arguments and
\* the value returned
EntityMoves(d) ==
    /\ steps < MaxOps
    /\ LET r == EntityMove(player, d[1], d[2], tiles, monsters \o summons)
       IN  Becomes([Session EXCEPT !.player.x = r.x, !.player.y = r.y,
                                   !.tick_log = <<Event(PlayerRef, IF r.ok THEN "move" ELSE "blocked", d, 0)>>])
    /\ steps' = steps + 1
FieldNext == \E d \in Steps8 : EntityMoves(d)
SpecField == FieldInit /\ [][FieldNext]_vars

\* a living entity other than the Player stands on the tile
LivingAt(list, x, y) == \E k \in DOMAIN list : is_alive(list[k]) /\ list[k].x = x /\ list[k].y = y
\* C31: Entity.move fails and leaves the position alone when the destination is out of
\* bounds, a wall, or the tile of a living entity of the list, and otherwise succeeds and
\* puts the entity on the destination
C31_MoveRejectsOrMoves ==
    [][\A d \in Steps8 :
        (tick_log' # << >> /\ tick_log'[1].target = d) =>
            LET new_x == player.x + d[1]
                new_y == player.y + d[2]
                rejected == \/ ~InBounds(tiles, new_x, new_y)
                            \/ get_tile(tiles, new_x, new_y) = TILE_WALL
                            \/ LivingAt(monsters \o summons, new_x, new_y)
            IN  IF rejected
                THEN tick_log'[1].act = "blocked" /\ player'.x = player.x /\ player'.y = player.y
                ELSE tick_log'[1].act = "move" /\ player'.x = new_x /\ player'.y = new_y]_vars
\* the move onto the tile of the fallen Summon has succeeded
C31_SteppedOverFallen ==
    /\ tick_log # << >> /\ tick_log[1].act = "move"
    /\ \E k \in DOMAIN summons : ~is_alive(summons[k]) /\ summons[k].x = player.x /\ summons[k].y = player.y

(***************************************************************************)
(* Whole ticks: what a tick may cost the Player                            *)
(***************************************************************************)
\* the step is a tick: a movement key or a used item, ended by end_player_turn
TickStep ==
    /\ turn_count' = turn_count + 1
    /\ tick_log' # << >> /\ tick_log'[1].act \in {"move", "attack", "blocked", "use"}
\* a living Monster stands on one of the four tiles around the Player
MonsterBeside(list, p) ==
    \E k \in DOMAIN list :
        is_alive(list[k]) /\ Manhattan(list[k].x, list[k].y, p.x, p.y) = 1
Arrives(d) == Pickup(Teleport(Stepped(d).g)).player
\* the movement key d moves the Player, and onto the stairs tile
EntersStairs(d) ==
    /\ MonsterAhead(d) = 0 /\ Stepped(d).ok
    /\ Some(<<Arrives(d).x, Arrives(d).y>>) = stairs_down_pos
\* C33: entering the stairs tile raises the dungeon depth by exactly 1, puts the Player on
\* the start position of the new level and leaves player.depth_reached equal to the depth
C33_StairsLeadOneDown ==
    [][\A d \in Dirs :
          (EntersStairs(d) /\ Pressed(d))
             => /\ ~crashed'
                /\ dungeon_depth' = dungeon_depth + 1
                /\ Some(<<player'.x, player'.y>>) = player_start_pos'
                /\ player'.depth_reached = dungeon_depth']_vars
\* the Player has walked onto the stairs and stands on the start of the level below
C33_WentDown ==
    /\ Len(tick_log) >= 2 /\ tick_log[1].act = "move"
    /\ \E k \in DOMAIN tick_log : tick_log[k].act = "descend"
    /\ dungeon_depth >= 2 /\ player.depth_reached = dungeon_depth
    /\ Some(<<player.x, player.y>>) = player_start_pos

(***************************************************************************)
(* Monster.take_turn on its own: a Monster of each kind in a long hall     *)
(* with the Player and a Summon at distances around the sight radius, and  *)
(* in a room whose tiles around the Monster are walls or floor in every    *)
(* combination, with the Player in sight and not adjacent                  *)
(***************************************************************************)
HallLength == 11
\* the Monster at the west end, the Player in its row, the Summon in the row above
Hall(monster_id, px, sx, summon_hp) ==
    [Arena(monster_id, 1, 0, FALSE, FALSE) EXCEPT
        !.tiles = Carve(AllWalls(HallLength + 2, 5), 1, 1, HallLength + 1, 4, TILE_FLOOR),
        !.monsters = <<MonsterOfLevel(1, 1, 2, monster_id, 1)>>,
        !.player.x = px, !.player.y = 2,
        !.summons = <<[NewSummon(2, sx, 1, 1, 1) EXCEPT !.hp = summon_hp]>>]
\* the eight tiles around (3, 3)
Around == {c \in (2..4) \X (2..4) : c # <<3, 3>>}
\* where the Player stands in the room: in sight of the Monster at (3, 3), not adjacent
Spots == {<<5, 5>>, <<3, 5>>, <<5, 4>>, <<5, 3>>, <<4, 5>>, <<4, 4>>, <<1, 3>>, <<2, 2>>}
Nook(monster_id, blocked, at) ==
    [Arena(monster_id, 1, 0, FALSE, FALSE) EXCEPT
        !.tiles = [y \in 1..7 |-> [x \in 1..7 |->
                      IF x \in {1, 7} \/ y \in {1, 7} \/ <<x - 1, y - 1>> \in blocked
                      THEN TILE_WALL ELSE TILE_FLOOR]],
        !.monsters = <<MonsterOfLevel(1, 3, 3, monster_id, 1)>>,
        !.player.x = at[1], !.player.y = at[2],
        !.summons = << >>]
SightInit ==
    /\ \/ \E monster_id \in MonsterIds, px \in 2..HallLength, sx \in 1..HallLength, summon_hp \in {0, 5, 23} :
               Start(Hall(monster_id, px, sx, summon_hp))
       \/ \E monster_id \in MonsterIds, blocked \in SUBSET Around, at \in Spots :
               at \notin blocked /\ Start(Nook(monster_id, blocked, at))
    /\ steps = 0
\* the value take_turn returns, kept as an event
Returned(t, mref) == Logged(t.g, mref, "return", t.target)
\* monster.take_turn(player, current_map, global_rng, summons) for the Monster of the
\* session; the events keep the target _select_target gave and the value returned
TakesTurn ==
    /\ steps < MaxOps
    /\ Becomes(Returned(MonsterTakeTurn(
                   Logged([Session EXCEPT !.tick_log = << >>], monsters[1].ref, "select",
                          SelectTarget(monsters[1], <<player>> \o SelectSeq(summons, is_alive),
                                       global_rng).target),
                   monsters[1].ref), monsters[1].ref))
    /\ steps' = steps + 1
SpecSight == SightInit /\ [][TakesTurn]_vars

\* the candidates of the Monster: the Player and the living summons
Candidates == <<player>> \o SelectSeq(summons, is_alive)
Distance(a, b) == Manhattan(a.x, a.y, b.x, b.y)
InSight(c) == Distance(monsters[1], c) <= SIGHT_RANGE
\* the Monster has wandered: the draws of the selection, then _wander_intelligently
Wandered ==
    LET w == WanderIntelligently(monsters[1], tiles, <<player>> \o summons,
                                 RngAdvance(global_rng, Len(Candidates)))
    IN  /\ <<monsters'[1].x, monsters'[1].y>> = <<w.x, w.y>>
        /\ global_rng' = w.rng
\* C34: the target a Monster selects, and with it the one it walks toward or attacks, is
\* never farther than 8 tiles (Manhattan) from it, and with every candidate beyond 8 tiles
\* it selects none and wanders
C34_NoTargetBeyondSight ==
    [][tick_log' # << >> =>
        LET selected == tick_log'[1].target
            returned == tick_log'[Len(tick_log')].target
        IN  /\ IsSome(selected) => InSight(Deref(Session, selected[1]))
            /\ IsSome(returned) => returned = selected
            /\ (\A k \in DOMAIN Candidates : ~InSight(Candidates[k]))
                  => (selected = None /\ returned = None /\ Wandered)]_vars
\* the Monster has selected the nearer of two candidates, the other being out of sight
C34_ChoseTheOneInSight ==
    /\ Len(tick_log) >= 2 /\ tick_log[1].act = "select" /\ tick_log[1].target = Some(<<"summon", 2>>)
    /\ \E k \in DOMAIN tick_log : tick_log[k].act = "move"
    /\ Distance(monsters[1], player) > SIGHT_RANGE + 1

\* C35: a Monster that walks toward a target in sight and not adjacent is, after its turn,
\* no farther (Manhattan) from the target than before, whatever is blocked around it
C35_PursuitNeverRetreats ==
    [][tick_log' # << >> =>
        LET selected == tick_log'[1].target
            target == Deref(Session, selected[1])
        IN  (IsSome(selected) /\ Distance(monsters[1], target) > 1)
               => Distance(monsters'[1], target) <= Distance(monsters[1], target)]_vars
\* the Monster has walked toward the Player around a wall
C35_WalkedAround ==
    /\ Len(tick_log) = 3 /\ tick_log[1].target = Some(PlayerRef) /\ tick_log[2].act = "move"
    /\ \E c \in Around : get_tile(tiles, c[1], c[2]) = TILE_WALL
    /\ summons = << >>

(***************************************************************************)
(* Item.use of the potions on its own: the Player hurt or unhurt, with or  *)
(* without running buffs, carrying one potion of each kind                 *)
(***************************************************************************)
MaxQuaffs == 3
\* a running buff of the kind the potion grants, or none
BuffChoices(item_id) ==
    {None} \cup {Some(Buff(ItemPower(item_id, level), n)) : level \in 1..2, n \in {1, 8, BUFF_DURATION}}
Running(hp_buff, defense_buff) ==
    [k \in (IF IsSome(hp_buff) THEN {"hp"} ELSE {}) \cup (IF IsSome(defense_buff) THEN {"defense"} ELSE {})
        |-> IF k = "hp" THEN hp_buff[1] ELSE defense_buff[1]]
Cellar(hp, hp_buff, defense_buff, levels, qty) ==
    [Arena("goblin", 1, 0, FALSE, FALSE) EXCEPT
        !.player.hp = hp, !.player.temp_buffs = Running(hp_buff, defense_buff),
        !.player.items_collected = 2 + qty,
        !.player.inventory = <<NewItem(0, 0, "health_potion", 1, levels[1]),
                               NewItem(0, 0, "defense_potion", qty, levels[2]),
                               NewItem(0, 0, "hp_boost_potion", 1, levels[3])>>]
PotionsInit ==
    /\ \E hp \in {5, 25, 30, 40, 45}, hp_buff \in BuffChoices("hp_boost_potion"),
          defense_buff \in BuffChoices("defense_potion"), levels \in (1..2) \X (1..2) \X (1..2),
          qty \in 1..2 :
            /\ hp <= 30 + (IF IsSome(hp_buff) THEN hp_buff[1].amount ELSE 0)
            /\ Start(Cellar(hp, hp_buff, defense_buff, levels, qty))
    /\ steps = 0
\* item.use(player, game) for the item in slot i; the event keeps the slot and the value returned
UsePotion(i) ==
    /\ steps < MaxQuaffs /\ i <= Len(player.inventory)
    /\ Becomes([ItemUse(Session, i).g EXCEPT
                   !.tick_log = <<Event(PlayerRef, IF ItemUse(Session, i).ok THEN "use" ELSE "refused",
                                        <<"slot", i>>, 0)>>])
    /\ steps' = steps + 1
PotionsNext == \E i \in 1..3 : UsePotion(i)
SpecPotions == PotionsInit /\ [][PotionsNext]_vars

\* the step is Item.use of the item in slot i, of the given type
UsedSlot(i, item_id) ==
    /\ tick_log' # << >> /\ tick_log'[1].target = <<"slot", i>>
    /\ player.inventory[i].item_id = item_id
\* C36: a healing potion is refused only when hp is at or above the effective maximum
\* (base max_hp plus an active hp buff), and otherwise heals by its power up to that maximum
C36_HealsToEffectiveMax ==
    [][\A i \in DOMAIN player.inventory :
          UsedSlot(i, "health_potion") =>
              IF player.hp >= get_max_hp(player)
              THEN tick_log'[1].act = "refused" /\ player' = player
              ELSE /\ tick_log'[1].act = "use"
                   /\ player'.hp = Min(get_max_hp(player),
                                       player.hp + ItemPower("health_potion", player.inventory[i].level))]_vars
\* the potion has been refused below the effective maximum
C36_RefusedBelowMax ==
    /\ tick_log # << >> /\ tick_log[1].act = "refused"
    /\ player.hp < get_max_hp(player)

\* the kind of buff a potion grants
BuffKind(item_id) == IF item_id = "defense_potion" THEN "defense" ELSE "hp"
\* C38: the Player holds one buff per kind at most; a defense or vitality potion used while
\* a buff of its kind runs puts the potion's power in place of the magnitude and 15 in
\* place of the remaining duration, and leaves the buff of the other kind alone
C38_SameKindBuffReplaced ==
    [][\A i \in DOMAIN player.inventory, item_id \in {"defense_potion", "hp_boost_potion"} :
          (UsedSlot(i, item_id) /\ HasBuff(player, BuffKind(item_id))) =>
              /\ tick_log'[1].act = "use"
              /\ DOMAIN player'.temp_buffs = DOMAIN player.temp_buffs
              /\ \A k \in DOMAIN player.temp_buffs :
                    player'.temp_buffs[k] =
                        IF k = BuffKind(item_id)
                        THEN Buff(ItemPower(item_id, player.inventory[i].level), BUFF_DURATION)
                        ELSE player.temp_buffs[k]]_vars
\* both defense potions of the stack have been drunk, the second while the buff of the
\* first was running
C38_DrankTwice ==
    /\ steps = 2 /\ Len(player.inventory) = 2
    /\ \A k \in DOMAIN player.inventory : player.inventory[k].item_id # "defense_potion"
    /\ HasBuff(player, "defense") /\ player.temp_buffs["defense"].steps = BUFF_DURATION

(***************************************************************************)
(* Item.use of weapons and armor on its own: up to three swords and three  *)
(* shields in the inventory, each known by the tile it was picked up from, *)
(* with or without the four kinds of stacks (ten slots with all the gear), *)
(* and a sword and a shield equipped or not                                *)
(***************************************************************************)
MaxGear == 3
MaxEquips == 2
\* the sword (row 1) or shield (row 2) picked up from column k
GearItem(item_id, k) == NewItem(k, IF item_id = "sword" THEN 1 ELSE 2, item_id, 1, 1)
GearOf(item_id, n) == ListOf([k \in 1..n |-> GearItem(item_id, k)])
Stacks ==
    <<NewItem(0, 0, "health_potion", 1, 1), NewItem(0, 0, "defense_potion", 1, 1),
      NewItem(0, 0, "hp_boost_potion", 1, 1), NewItem(0, 0, "summon", 1, 1)>>
Armory(swords, shields, stacks, armed, shielded) ==
    [Arena("goblin", 1, 0, FALSE, FALSE) EXCEPT
        !.player.inventory = GearOf("sword", swords) \o (IF stacks THEN Stacks ELSE << >>)
                                \o GearOf("shield", shields),
        !.player.items_collected = swords + shields + (IF stacks THEN 4 ELSE 0),
        !.player.equipped_weapon = IF armed THEN Some(GearItem("sword", 0)) ELSE None,
        !.player.equipped_armor = IF shielded THEN Some(GearItem("shield", 0)) ELSE None]
GearInit ==
    /\ \E swords \in 0..MaxGear, shields \in 0..MaxGear, stacks \in BOOLEAN, armed \in BOOLEAN,
          shielded \in BOOLEAN :
            /\ swords + shields > 0
            /\ swords + shields + (IF stacks THEN 4 ELSE 0) <= INVENTORY_SIZE
            /\ Start(Armory(swords, shields, stacks, armed, shielded))
    /\ steps = 0
\* item.use(player, game) for the item in slot i; the event keeps the slot and the value returned
UseGear(i) ==
    /\ steps < MaxEquips /\ i <= Len(player.inventory)
    /\ Becomes([ItemUse(Session, i).g EXCEPT
                   !.tick_log = <<Event(PlayerRef, IF ItemUse(Session, i).ok THEN "use" ELSE "refused",
                                        <<"slot", i>>, 0)>>])
    /\ steps' = steps + 1
GearNext == \E i \in 1..INVENTORY_SIZE : UseGear(i)
SpecGear == GearInit /\ [][GearNext]_vars

Carries(p) == {p.inventory[k] : k \in DOMAIN p.inventory}
Wears(p) == {p.equipped_weapon[k] : k \in DOMAIN p.equipped_weapon} \cup
            {p.equipped_armor[k] : k \in DOMAIN p.equipped_armor}
\* the item in slot i has been equipped in place of what was in its slot before
Exchanged(i, before, after) ==
    /\ tick_log'[1].act = "use"
    /\ after = Some(player.inventory[i])
    /\ Carries(player') = (Carries(player) \ {player.inventory[i]}) \cup {before[k] : k \in DOMAIN before}
    /\ Len(player'.inventory) = Len(player.inventory) - 1 + Len(before)
\* C39: equipping a weapon or armor from the inventory always succeeds: the item leaves the
\* inventory and becomes the equipped one, the item equipped before it comes back to the
\* inventory, whose length is then unchanged, and no equipped item is ever in the
\* inventory as well
C39_EquipExchanges ==
    /\ [](Carries(player) \cap Wears(player) = {})
    /\ [][\A i \in DOMAIN player.inventory :
            /\ UsedSlot(i, "sword") =>
                  /\ Exchanged(i, player.equipped_weapon, player'.equipped_weapon)
                  /\ player'.equipped_armor = player.equipped_armor
            /\ UsedSlot(i, "shield") =>
                  /\ Exchanged(i, player.equipped_armor, player'.equipped_armor)
                  /\ player'.equipped_weapon = player.equipped_weapon]_vars
\* with ten slots taken, a sword from the inventory has replaced the one equipped before
C39_ExchangedWhenFull ==
    /\ tick_log # << >> /\ tick_log[1].act = "use"
    /\ Len(player.inventory) = INVENTORY_SIZE
    /\ GearItem("sword", 0) \in Carries(player)
    /\ IsSome(player.equipped_weapon) /\ player.equipped_weapon[1].x > 0

(***************************************************************************)
(* The end of handle_player_action: the descent returns before the tick    *)
(***************************************************************************)
\* the room with the stairs east of the Player, who has a defense buff with some of its
\* steps left or none; the Monster stands north and the Summon west
Landing(monster_id, level, potion, left) ==
    [Room(monster_id, level, 23, 30, FALSE) EXCEPT
        !.player.temp_buffs = IF potion = 0 THEN EmptyDict
                              ELSE [k \in {"defense"} |-> Buff(ItemPower("defense_potion", potion), left)]]
StairsInit ==
    /\ \E monster_id \in MonsterIds, level \in 1..MaxMonsterLevel, potion \in 0..MaxPotionLevel,
          left \in {1, BUFF_DURATION} :
            Start(Landing(monster_id, level, potion, left))
    /\ steps = 0
SpecStairs == StairsInit /\ [][ArenaNext]_vars
\* what summons and monsters did in the tick, by the events of the tick log
ActedInTick == Events("summon") \cup Events("monster")
Decayed == {k \in DOMAIN tick_log : tick_log[k].act \in {"decay", "expired"}}
Weak(e, weak) == IF weak THEN [e EXCEPT !.hp = 1] ELSE e
Melee(level, weak, hp, summon_weak) ==
    [Arena("goblin", level, 0, FALSE, FALSE) EXCEPT
        !.player.hp = hp,
        !.monsters = <<Weak(MonsterOfLevel(1, 2, 1, "goblin", level), weak[1]),
                       Weak(MonsterOfLevel(3, 3, 2, "orc", level), weak[2]),
                       Weak(MonsterOfLevel(4, 1, 1, "spider", level), weak[3])>>,
        !.summons = <<Weak(NewSummon(2, 1, 2, 1, 1), summon_weak)>>,
        !.next_id = 5]
MeleeInit ==
    /\ \E level \in 1..2, weak \in [1..3 -> BOOLEAN], hp \in {1, 4, 30}, summon_weak \in BOOLEAN :
            Start(Melee(level, weak, hp, summon_weak))
    /\ steps = 0
SpecMelee == MeleeInit /\ [][ArenaNext]_vars

\* the hp the attacks on the Player take in the first k events of a tick log
RECURSIVE HitsTaken(_, _)
HitsTaken(log, k) ==
    IF k = 0 THEN 0
    ELSE HitsTaken(log, k - 1) +
         (IF log[k].act = "attack" /\ log[k].target = PlayerRef THEN log[k].damage ELSE 0)
\* a tick of a movement key on one level
KeyTick ==
    /\ turn_count' = turn_count + 1 /\ dungeon_depth' = dungeon_depth
    /\ tick_log' # << >> /\ tick_log'[1].act \in {"move", "attack", "blocked"}
\* the monsters that fell in the tick
Fallen == {monsters[k].ref : k \in DOMAIN monsters} \ {monsters'[k].ref : k \in DOMAIN monsters'}
\* C40: once the hp of the Player has reached 0 in the monster phase, no monster later in
\* the order of that tick moves or attacks, and a monster killed in the player or summon
\* phase of a tick takes no action in that tick
C40_DeadDoNotAct ==
    [][KeyTick =>
          /\ \A k \in DOMAIN tick_log' :
                (player.hp > 0 /\ HitsTaken(tick_log', k) >= player.hp)
                   => /\ player'.hp = 0
                      /\ \A j \in (k + 1)..Len(tick_log') : tick_log'[j].actor[1] # "monster"
          /\ \A j \in DOMAIN tick_log' : tick_log'[j].actor \notin Fallen]_vars
\* the goblin has killed the Player while the orc, next in the order, stood beside them
C40_FellBeforeTheOrc ==
    /\ game_over /\ player.hp = 0 /\ Len(monsters) >= 2
    /\ tick_log # << >> /\ tick_log[Len(tick_log)].actor = <<"monster", 1>>
    /\ \E k \in DOMAIN monsters : monsters[k].ref = <<"monster", 3>> /\ Adjacent4(monsters[k], player)
    /\ \E j \in DOMAIN tick_log : tick_log[j].actor = PlayerRef /\ tick_log[j].act = "attack"
====
